---- MODULE Spec2Model ----
(***************************************************************************)
(* Model of the interview simulator's AI pipeline: the browser client      *)
(* (src/services/aiService.ts, first module of the file) and the Express   *)
(* backend (src/server/index.js) that proxies the Groq chat-completion     *)
(* endpoint.                                                               *)
(*                                                                         *)
(* Strings that the code inspects character by character (the interview    *)
(* type) are sequences of one-character strings.  Question texts are       *)
(* records [canon, form, generic, numbered]: form is the literal text, canon *)
(* what canonicalize() makes of it (two literals may share one), generic   *)
(* the banned pattern the text contains, numbered whether a list number    *)
(* leads it.  JSON values are records [k, n, s, pad]; numbers are    *)
(* held in tenths so that Math.round has something to round.               *)
(***************************************************************************)
EXTENDS Integers, Sequences, FiniteSets, TLC

VARIABLES
    \* ---- one aiService call at a time: the client, the backend, the LLM
    apiKey,      \* the backend has a GROQ_API_KEY
    pc,          \* "idle", "attempt" (fn is called), "sleeping" (backoff), "done"
    op,          \* "none", "questions", "evaluate", "chat"
    cfgType,     \* config.type of the call
    answer,      \* the answer of an evaluateAnswer call
    fallback,    \* generateQuestions: fallbackQuestions(config), computed first
    retries,     \* withRetry: retries left
    delay,       \* withRetry: the next backoff in ms
    requests,    \* postApi invocations of this call
    waits,       \* the backoffs slept through, in order
    attempts,    \* per finished attempt, the HTTP status (0: no response) and
                 \* whether the error message matches the transient pattern
    llmCalls,    \* requests the backend sent to the LLM during this call
    llmLast,     \* status of the LLM's last answer (0: none, -1: no response)
    response,    \* the last HTTP response the client received
    result,      \* what the call settled with
    \* ---- category plan and fallback questions (pure functions of a config)
    fqPc, fqType, fqSeed, planClient, planServer, fbClient, fbServer,
    pick,        \* one pickUniqueFromPool call: its pool, used set and seed, and what it gave
    \* ---- evaluation normalisation (pure function of a raw JSON object)
    evPc, raw, out1, out2,
    \* ---- the interview session (InterviewProvider) and the history store
    ui,          \* TRUE: the calls come from the pages' controls; FALSE: from a
                 \* caller of the context that awaits each call
    user,        \* useAuth().user
    session,     \* useState: the InterviewSession, or NoSession for null
    loading,     \* useState
    error,       \* useState
    calls,       \* startInterview and submitAnswer calls awaiting aiService, with
                 \* the session and user their closures hold
    now,         \* Date.now()
    started,     \* startInterview calls made so far
    store,       \* localStorage: the history array stored for the user
    lastSave,    \* the last db.saveInterviewSession call: the session's id, whether
                 \* the id was in the history, the stored array before the call
    settled,     \* per session id, the answers of its settled submitAnswer calls
    early,       \* sessions saved with a start time before an already saved one
    returned,    \* submitAnswer calls that returned at once, there being no session
    \* ---- the accounts (AuthProvider, databaseService) on the browser's event loop
    authUsers,   \* localStorage: the credential list
    profiles,    \* localStorage: the stored profiles
    current,     \* localStorage: the current-session pointer, a user id or NoUser
    notes,       \* showNotification: the notifications shown, in order
    ops,         \* the async calls in flight: where each stands and what it holds
    micro,       \* the microtask queue: the calls whose continuation is due
    issued,      \* async calls made so far
    finished     \* the calls that settled, in order, and how

fqVars == <<fqPc, fqType, fqSeed, planClient, planServer, fbClient, fbServer, pick>>
evVars == <<evPc, raw, out1, out2>>
callVars == <<apiKey, pc, op, cfgType, answer, fallback, retries, delay, requests,
              waits, attempts, llmCalls, llmLast, response, result>>
sesVars == <<ui, user, session, loading, error, calls, now, started, store, lastSave,
             settled, early, returned>>
dbVars == <<authUsers, profiles, current, notes, ops, micro, issued, finished>>
vars == <<callVars, fqVars, evVars, sesVars, dbVars>>

(***************************************************************************)
(* Bounds of the model.                                                    *)
(***************************************************************************)
MaxSeedByte == 7      \* low byte of a sampled seed ranges over 0..MaxSeedByte
MaxTips == 4          \* longest raw improvement_tips list that is tried
MaxSessions == 1      \* startInterview calls the pages make in one run
MaxCallerSessions == 2  \* startInterview calls a caller of the context makes in one run
MaxInFlight == 2      \* calls awaiting aiService at one time
MaxAnswers == 6       \* answers a session may hold when one more is submitted
MaxSaves == 52        \* sessions created for the history store
MaxEarlier == 1       \* of them, sessions that started before a saved one
MaxReturned == 1      \* submitAnswer calls made when there is no session
MaxLenBlocks == 11    \* trimmed answers are up to 40 * MaxLenBlocks + 39 characters long
MaxTechWords == 9     \* words of an answer that are in the backend's keyword list
MaxOps == 3           \* calls made on the accounts
MaxHistoryOps == 2    \* sessions the pages hand to db.saveInterviewSession

(***************************************************************************)
(* Program constants.                                                      *)
(***************************************************************************)
QUESTION_COUNT == 5
MAX_RETRIES == 2
INITIAL_BACKOFF == 1000
PoolSize == 8
ServerPoolSize == 5

QText(canon, form, generic, numbered) ==
    [canon |-> canon, form |-> form, generic |-> generic, numbered |-> numbered]
Null == QText(<<"<null>", 0>>, <<"<null>", 0>>, "none", FALSE)

(***************************************************************************)
(* Character strings: String(value).trim().toLowerCase()                   *)
(***************************************************************************)
Undefined == <<"<undefined>">>

Str_HR == <<"H", "R">>
Str_hr == <<"h", "r">>
Str_Technical == <<"T", "e", "c", "h", "n", "i", "c", "a", "l">>
Str_technical == <<"t", "e", "c", "h", "n", "i", "c", "a", "l">>
Str_Mixed == <<"M", "i", "x", "e", "d">>
Str_undefined == <<"u", "n", "d", "e", "f", "i", "n", "e", "d">>

LowerChar(c) ==
    CASE c = "H" -> "h" [] c = "R" -> "r" [] c = "T" -> "t" [] c = "E" -> "e"
      [] c = "C" -> "c" [] c = "N" -> "n" [] c = "I" -> "i" [] c = "A" -> "a"
      [] c = "L" -> "l" [] c = "M" -> "m" [] c = "X" -> "x" [] c = "D" -> "d"
      [] OTHER -> c

ToLowerCase(s) == [i \in 1..Len(s) |-> LowerChar(s[i])]

IsSpace(c) == c = " "

RECURSIVE TrimStart(_)
TrimStart(s) ==
    IF s # <<>> /\ IsSpace(Head(s)) THEN TrimStart(Tail(s)) ELSE s

RECURSIVE TrimEnd(_)
TrimEnd(s) ==
    IF s # <<>> /\ IsSpace(s[Len(s)]) THEN TrimEnd(SubSeq(s, 1, Len(s) - 1)) ELSE s

Trim(s) == TrimEnd(TrimStart(s))

\* client: normalizeKey(String(type)); String(undefined) is "undefined"
ClientNormalizeKey(value) ==
    ToLowerCase(Trim(IF value = Undefined THEN Str_undefined ELSE value))

\* (a key that is lowercased but not trimmed)
ServerNormalizeKeyNoTrim(value) ==
    ToLowerCase(IF value = Undefined THEN <<>> ELSE value)

\* backend: normalizeKey(value = '') is String(value).trim().toLowerCase()
ServerNormalizeKey(value) ==
    ToLowerCase(Trim(IF value = Undefined THEN <<>> ELSE value))

AllHR == <<"HR", "HR", "HR", "HR", "HR">>
AllTechnical == <<"Technical", "Technical", "Technical", "Technical", "Technical">>
Alternating == <<"HR", "Technical", "HR", "Technical", "HR">>

ClientGetCategoryPlan(type) ==
    LET normalizedType == ClientNormalizeKey(type) IN
    IF normalizedType = Str_hr THEN AllHR
    ELSE IF normalizedType = Str_technical THEN AllTechnical
    ELSE Alternating

ServerGetCategoryPlan(type) ==
    LET normalizedType == ServerNormalizeKey(type) IN
    IF normalizedType = Str_hr THEN AllHR
    ELSE IF normalizedType = Str_technical THEN AllTechnical
    ELSE Alternating

TypeInputs ==
    { Str_HR, Str_hr, <<" ", "H", "r", " ">>, <<"h", "R", " ">>,
      Str_Technical, Str_technical, <<"T", "E", "C", "H", "N", "I", "C", "A", "L">>,
      <<" ", "T", "e", "c", "h", "n", "i", "c", "a", "l">>,
      Str_Mixed, <<"m", "i", "x", "e", "d">>, <<>>, <<"H", " ", "R">>,
      <<"T", "e", "c", "h">>, Undefined }

(***************************************************************************)
(* Question texts and canonicalize()                                       *)
(***************************************************************************)
Canonicalize(text) == text.canon

Intro == QText(<<"tell me about yourself", 0>>, <<"Tell me about yourself.", 0>>, "none", FALSE)

\* the client's pools: 8 template literals each, pairwise different wording
ClientHrPool == [k \in 1..PoolSize |-> QText(<<"client hr", k>>, <<"client hr", k>>, "none", FALSE)]
ClientTechnicalPool == [k \in 1..PoolSize |-> QText(<<"client technical", k>>, <<"client technical", k>>, "none", FALSE)]
ClientHrSynth == QText(<<"client hr", 0>>, <<"client hr", 0>>, "none", FALSE)
ClientTechnicalSynth == QText(<<"client technical", 0>>, <<"client technical", 0>>, "none", FALSE)

\* the backend's pools: 5 template literals each
ServerHrPool == [k \in 1..ServerPoolSize |-> QText(<<"server hr", k>>, <<"server hr", k>>, "none", FALSE)]
ServerTechnicalPool == [k \in 1..ServerPoolSize |-> QText(<<"server technical", k>>, <<"server technical", k>>, "none", FALSE)]
ServerHrSynth == QText(<<"server hr", 0>>, <<"server hr", 0>>, "none", FALSE)
ServerTechnicalSynth == QText(<<"server technical", 0>>, <<"server technical", 0>>, "none", FALSE)

(***************************************************************************)
(* 32-bit arithmetic of nextSeed: a seed is four bytes, least significant  *)
(* first; (seed * 1664525 + 1013904223) >>> 0 is computed limb by limb.    *)
(* The product stays below 2^53, so the JavaScript number is exact.        *)
(***************************************************************************)
Byte == 256
LcgMultiplier == <<13, 102, 25, 0>>      \* 1664525    = 0x0019660D
LcgIncrement == <<95, 243, 110, 60>>     \* 1013904223 = 0x3C6EF35F

nextSeed(seed) ==
    LET m == LcgMultiplier
        c == LcgIncrement
        r1 == seed[1] * m[1] + c[1]
        r2 == seed[1] * m[2] + seed[2] * m[1] + c[2] + (r1 \div Byte)
        r3 == seed[1] * m[3] + seed[2] * m[2] + seed[3] * m[1] + c[3] + (r2 \div Byte)
        r4 == seed[1] * m[4] + seed[2] * m[3] + seed[3] * m[2] + seed[4] * m[1]
              + c[4] + (r3 \div Byte)
    IN <<r1 % Byte, r2 % Byte, r3 % Byte, r4 % Byte>>

\* seedRef.value % pool.length, for a pool length that divides 256
SeedMod(seed, n) == seed[1] % n

\* pickUniqueFromPool: the while loop from `attempts` on; the result carries
\* the picked text (Null when the loop runs out), the used set and the seed
RECURSIVE PickLoop(_, _, _, _)
PickLoop(pool, used, seed, tries) ==
    IF tries >= Len(pool) * 2
    THEN [text |-> Null, used |-> used, seed |-> seed]
    ELSE LET s == nextSeed(seed)
             candidate == pool[SeedMod(s, Len(pool)) + 1]
             key == Canonicalize(candidate)
         IN IF key \notin used
            THEN [text |-> candidate, used |-> used \cup {key}, seed |-> s]
            ELSE PickLoop(pool, used, s, tries + 1)

\* (a loop that gives up after two candidates)
pickUniqueFromPoolTwoTries(pool, used, seed) ==
    IF Len(pool) = 0
    THEN [text |-> Null, used |-> used, seed |-> seed]
    ELSE PickLoop(pool, used, seed, Len(pool) * 2 - 2)

pickUniqueFromPool(pool, used, seed) ==
    IF Len(pool) = 0
    THEN [text |-> Null, used |-> used, seed |-> seed]
    ELSE PickLoop(pool, used, seed, 0)

Question(i, text, category) == [id |-> i, text |-> text, category |-> category]

\* client fallbackQuestions: the for loop from slot i on (i is 1-based here)
RECURSIVE ClientFallbackLoop(_, _, _, _, _)
ClientFallbackLoop(plan, i, used, seed, questions) ==
    IF i > QUESTION_COUNT THEN questions
    ELSE LET category == plan[i] IN
         IF i = 1 /\ category = "HR"
         THEN ClientFallbackLoop(plan, i + 1, used \cup {Canonicalize(Intro)}, seed,
                                 Append(questions, Question(i, Intro, category)))
         ELSE LET pool == IF category = "HR" THEN ClientHrPool ELSE ClientTechnicalPool
                  p == pickUniqueFromPool(pool, used, seed)
                  text == IF p.text # Null THEN p.text
                          ELSE IF category = "HR" THEN ClientHrSynth
                          ELSE ClientTechnicalSynth
              IN ClientFallbackLoop(plan, i + 1, p.used, p.seed,
                                    Append(questions, Question(i, text, category)))

\* (a fallback list that takes slot 0 from the pool as well)
ClientFallbackQuestionsNoIntro(type, seed) ==
    LET plan == ClientGetCategoryPlan(type)
        first == pickUniqueFromPool(IF plan[1] = "HR" THEN ClientHrPool
                                    ELSE ClientTechnicalPool, {}, seed)
    IN ClientFallbackLoop(plan, 2, first.used, first.seed,
                          <<Question(1, first.text, plan[1])>>)

ClientFallbackQuestions(type, seed) ==
    ClientFallbackLoop(ClientGetCategoryPlan(type), 1, {}, seed, <<>>)

\* backend fallbackQuestions: pool[i % pool.length] with i 0-based
RECURSIVE ServerFallbackLoop(_, _, _, _)
ServerFallbackLoop(plan, i, used, questions) ==
    IF i > QUESTION_COUNT THEN questions
    ELSE LET category == plan[i]
             pool == IF category = "HR" THEN ServerHrPool ELSE ServerTechnicalPool
             picked == pool[((i - 1) % Len(pool)) + 1]
             text == IF i = 1 /\ category = "HR" THEN Intro
                     ELSE IF Canonicalize(picked) \in used
                          THEN (IF category = "HR" THEN ServerHrSynth
                                ELSE ServerTechnicalSynth)
                          ELSE picked
         IN ServerFallbackLoop(plan, i + 1, used \cup {Canonicalize(text)},
                               Append(questions, Question(i, text, category)))

ServerFallbackQuestions(type) ==
    ServerFallbackLoop(ServerGetCategoryPlan(type), 1, {}, <<>>)

\* seeds that hashString can deliver: every residue of the pool sizes in the
\* low byte, with low, mixed and all-ones upper bytes
SeedInputs ==
    { <<b, h[1], h[2], h[3]>> :
        b \in 0..MaxSeedByte, h \in { <<0, 0, 0>>, <<197, 157, 28>>, <<255, 255, 255>> } }


(***************************************************************************)
(* JSON values as the evaluation code reads them.  n is in tenths; a       *)
(* string is its trimmed body s and whether blanks surround it (pad).      *)
(***************************************************************************)
JVal(k, n, str, pad) == [k |-> k, n |-> n, s |-> str, pad |-> pad]
Undef == JVal("undefined", 0, "", FALSE)
JNull == JVal("null", 0, "", FALSE)
Num(tenths) == JVal("number", tenths, "", FALSE)
Infinite == JVal("infinity", 0, "", FALSE)
Bool(b) == JVal("boolean", IF b THEN 1 ELSE 0, "", FALSE)
Str(body, pad) == JVal("string", 0, body, pad)
Obj == JVal("object", 0, "", FALSE)

NaN == [finite |-> FALSE, n |-> 0]
Finite(tenths) == [finite |-> TRUE, n |-> tenths]

\* Number(string): blanks are trimmed, the empty string is 0
StringToNumber(body) ==
    CASE body = "" -> Finite(0)
      [] body = "7" -> Finite(70)
      [] body = "8.5" -> Finite(85)
      [] body = "-3" -> Finite(-30)
      [] body = "250" -> Finite(2500)
      [] OTHER -> NaN

\* Number(value)
ToNumber(v) ==
    CASE v.k = "number" -> Finite(v.n)
      [] v.k = "null" -> Finite(0)
      [] v.k = "boolean" -> Finite(v.n * 10)
      [] v.k = "string" -> StringToNumber(v.s)
      [] OTHER -> NaN

\* Math.round: the nearest integer, halves upwards
MathRound(tenths) == (tenths + 5) \div 10

Min(a, b) == IF a < b THEN a ELSE b
Max(a, b) == IF a > b THEN a ELSE b

\* a clamp that forgets the lower limit
clampNoLowerLimit(value, min, max, dflt) ==
    LET num == ToNumber(value) IN
    IF ~num.finite THEN dflt ELSE Min(max, MathRound(num.n))

\* a clamp that answers 0 for what is not a number
clampZeroFallback(value, min, max, dflt) ==
    LET num == ToNumber(value) IN
    IF ~num.finite THEN 0 ELSE Min(max, Max(min, MathRound(num.n)))

clamp(value, min, max, dflt) ==
    LET num == ToNumber(value) IN
    IF ~num.finite THEN dflt ELSE Min(max, Max(min, MathRound(num.n)))

\* typeof v === 'string' && v.trim()
IsNonBlankString(v) == v.k = "string" /\ v.s # ""

StringTrim(v) == Str(v.s, FALSE)

\* raw?.field: undefined when raw is null or no object
Field(r, f) == IF r.obj THEN r[f] ELSE Undef

ServerDefaultTips ==
    << Str("Use STAR structure for better clarity.", FALSE),
       Str("Add one concrete metric in your answer.", FALSE),
       Str("Explain your technical trade-offs clearly.", FALSE) >>

\* while (tips.length < 3) tips.push(defaults[tips.length])
RECURSIVE PadTips(_)
PadTips(tips) ==
    IF Len(tips) < 3 THEN PadTips(Append(tips, ServerDefaultTips[Len(tips) + 1])) ELSE tips

FirstThree(seq) == SubSeq(seq, 1, Min(3, Len(seq)))

normalizeEvaluation(r) ==
    LET given == IF r.obj THEN r.improvement_tips ELSE [isArray |-> FALSE, items |-> <<>>]
        tips == IF given.isArray
                THEN FirstThree(SelectSeq(given.items, IsNonBlankString))
                ELSE <<>>
    IN [ relevance |-> clamp(Field(r, "relevance"), 1, 10, 6),
         clarity |-> clamp(Field(r, "clarity"), 1, 10, 6),
         confidence |-> clamp(Field(r, "confidence"), 1, 10, 6),
         technical_depth |-> clamp(Field(r, "technical_depth"), 1, 10, 6),
         sentiment |-> IF IsNonBlankString(Field(r, "sentiment"))
                       THEN StringTrim(Field(r, "sentiment")) ELSE Str("neutral", FALSE),
         overall_score |-> clamp(Field(r, "overall_score"), 1, 100, 65),
         feedback |-> IF IsNonBlankString(Field(r, "feedback"))
                      THEN StringTrim(Field(r, "feedback"))
                      ELSE Str("Good start. Improve technical specificity and measurable outcomes.", FALSE),
         improvement_tips |-> PadTips(tips) ]

\* an EvaluationResult handed back in as a raw object
AsRaw(e) ==
    [ obj |-> TRUE,
      relevance |-> Num(e.relevance * 10),
      clarity |-> Num(e.clarity * 10),
      confidence |-> Num(e.confidence * 10),
      technical_depth |-> Num(e.technical_depth * 10),
      sentiment |-> e.sentiment,
      overall_score |-> Num(e.overall_score * 10),
      feedback |-> e.feedback,
      improvement_tips |-> [isArray |-> TRUE, items |-> e.improvement_tips] ]

RawObject(rel, cla, con, tec, sen, ovr, fb, tips) ==
    [ obj |-> TRUE, relevance |-> rel, clarity |-> cla, confidence |-> con,
      technical_depth |-> tec, sentiment |-> sen, overall_score |-> ovr,
      feedback |-> fb, improvement_tips |-> tips ]

EmptyObject ==
    RawObject(Undef, Undef, Undef, Undef, Undef, Undef, Undef,
              [isArray |-> FALSE, items |-> <<>>])

\* null, a number, a string: anything that is no object
NotAnObject == [EmptyObject EXCEPT !.obj = FALSE]

\* ---- the raw inputs that are tried
NumberInputs ==
    { Undef, JNull, Obj, Infinite, Bool(TRUE), Str("abc", FALSE), Str("7", TRUE),
      Str("8.5", FALSE), Str("-3", FALSE), Str("250", FALSE), Str("", TRUE),
      Num(-30), Num(0), Num(4), Num(5), Num(70), Num(75), Num(104), Num(105),
      Num(1004), Num(1005), Num(2500) }
FewNumberInputs == { Undef, Num(-30), Num(85) }
StringInputs == { Undef, Num(70), Str("", TRUE), Str("positive", TRUE), Str("negative", FALSE) }
FewStringInputs == { Undef, Str("well argued", TRUE) }
TipItems == { Str("tip b", TRUE), Str("", TRUE), Num(30) }

SeqsUpTo(S, n) == UNION { [1..k -> S] : k \in 0..n }

TipInputs ==
    { [isArray |-> FALSE, items |-> <<>>] }
    \cup { [isArray |-> TRUE, items |-> t] : t \in SeqsUpTo(TipItems, MaxTips) }
FewTipInputs ==
    { [isArray |-> FALSE, items |-> <<>>],
      [isArray |-> TRUE, items |-> <<Str("tip a", FALSE), Str("tip b", TRUE),
                                     Str("tip c", FALSE), Str("tip d", FALSE)>>] }

\* each output field of normalizeEvaluation reads one input field, so the
\* numbers and the tips are varied in turn
RawInputs ==
    { EmptyObject, NotAnObject }
    \cup { RawObject(rel, cla, cla, JNull, Undef, ovr, Undef, tips) :
             rel \in NumberInputs, cla \in FewNumberInputs,
             ovr \in NumberInputs, tips \in FewTipInputs }
    \cup { RawObject(n, Undef, n, Num(70), sen, n, fb, tips) :
             n \in FewNumberInputs, sen \in StringInputs, fb \in FewStringInputs,
             tips \in TipInputs }

NoEvaluation == normalizeEvaluation(NotAnObject)

EvInit == evPc = "raw" /\ raw \in RawInputs /\ out1 = NoEvaluation /\ out2 = NoEvaluation
EvIdle == evPc = "off" /\ raw = NotAnObject /\ out1 = NoEvaluation /\ out2 = NoEvaluation

\* normalizeEvaluation(parsed)
NormalizeOnce ==
    /\ evPc = "raw"
    /\ out1' = normalizeEvaluation(raw)
    /\ evPc' = "once"
    /\ UNCHANGED <<dbVars, raw, out2, fqVars, callVars, sesVars>>

\* normalizeEvaluation of the result
NormalizeTwice ==
    /\ evPc = "once"
    /\ out2' = normalizeEvaluation(AsRaw(out1))
    /\ evPc' = "twice"
    /\ UNCHANGED <<dbVars, raw, out1, fqVars, callVars, sesVars>>

(***************************************************************************)
(* getCategoryPlan and fallbackQuestions applied to a configuration         *)
(***************************************************************************)
NoPick ==
    [ pool |-> <<>>, usedBefore |-> {}, seed |-> <<0, 0, 0, 0>>,
      out |-> [text |-> Null, used |-> {}, seed |-> <<0, 0, 0, 0>>] ]

FqInit ==
    /\ fqPc = "config" /\ fqType \in TypeInputs /\ fqSeed \in SeedInputs
    /\ planClient = <<>> /\ planServer = <<>> /\ fbClient = <<>> /\ fbServer = <<>>
    /\ pick = NoPick
FqIdle ==
    /\ fqPc = "off" /\ fqType = <<>> /\ fqSeed = <<0, 0, 0, 0>>
    /\ planClient = <<>> /\ planServer = <<>> /\ fbClient = <<>> /\ fbServer = <<>>
    /\ pick = NoPick

GetCategoryPlan ==
    /\ fqPc = "config"
    /\ planClient' = ClientGetCategoryPlan(fqType)
    /\ planServer' = ServerGetCategoryPlan(fqType)
    /\ fqPc' = "planned"
    /\ UNCHANGED <<dbVars, fqType, fqSeed, fbClient, fbServer, pick, evVars, callVars, sesVars>>

FallbackQuestionsClient ==
    /\ fqPc = "planned" /\ fbClient = <<>>
    /\ fbClient' = ClientFallbackQuestions(fqType, fqSeed)
    /\ UNCHANGED <<dbVars, fqPc, fqType, fqSeed, planClient, planServer, fbServer, pick, evVars, callVars, sesVars>>

\* the pools fallbackQuestions draws from for the categories of a plan
PoolsOf(plan) ==
    { IF plan[i] = "HR" THEN ClientHrPool ELSE ClientTechnicalPool : i \in 1..Len(plan) }

\* the used sets a call may meet: any part of the pool, with or without
\* "Tell me about yourself."
UsedSets(pool) ==
    { {Canonicalize(pool[k]) : k \in K} \cup extra :
        K \in SUBSET (1..Len(pool)), extra \in { {}, {Canonicalize(Intro)} } }

\* one call of pickUniqueFromPool(pool, used, seedRef)
PickUniqueFromPool ==
    /\ fqPc = "config"
    /\ \E pool \in PoolsOf(ClientGetCategoryPlan(fqType)) :
          \E used \in UsedSets(pool) :
             pick' = [ pool |-> pool, usedBefore |-> used, seed |-> fqSeed,
                       out |-> pickUniqueFromPool(pool, used, fqSeed) ]
    /\ fqPc' = "picked"
    /\ UNCHANGED <<dbVars, fqType, fqSeed, planClient, planServer, fbClient, fbServer,
                   evVars, callVars, sesVars>>

FallbackQuestionsServer ==
    /\ fqPc = "planned" /\ fbServer = <<>>
    /\ fbServer' = ServerFallbackQuestions(fqType)
    /\ UNCHANGED <<dbVars, fqPc, fqType, fqSeed, planClient, planServer, fbClient, pick, evVars, callVars, sesVars>>



(***************************************************************************)
(* Question normalisation, client and backend                              *)
(***************************************************************************)
EmptyText == QText(<<"", 0>>, <<"", 0>>, "none", FALSE)

\* strips a leading list number or bullet and collapses blanks
cleanQuestionText(text) == [text EXCEPT !.numbered = FALSE]

IsEmptyText(text) == text.form = EmptyText.form

\* client GENERIC_PATTERNS: the fifth is /what is your salary expectation/i
isGenericQuestion(text) ==
    text.generic \in { "what are your strengths", "what are your weaknesses",
                       "where do you see yourself", "why should we hire you",
                       "what is your salary expectation" }

\* backend GENERIC_PATTERNS: the fifth is /salary expectation/i
ServerIsGeneric(text) ==
    text.generic \in { "what are your strengths", "what are your weaknesses",
                       "where do you see yourself", "why should we hire you",
                       "salary expectation", "what is your salary expectation" }

\* buildQuestionPrompt: the three questions quoted after "Do NOT use these
\* generic questions"
PromptBans(text) ==
    text.generic \in { "what are your strengths", "what are your weaknesses",
                       "where do you see yourself" }

\* an entry of a questions array: k is the JSON type of its text field
Entry(k, text, category) == [k |-> k, text |-> text, category |-> category]

\* client: typeof incoming[i]?.text === "string" ? cleanQuestionText(..) : ""
ClientRawText(entry) ==
    IF entry.k = "string" THEN cleanQuestionText(entry.text) ELSE EmptyText

\* backend: cleanQuestionText(rawQuestions[i]?.text || ''); a number turns
\* into its digits, which the list-number rule strips
ServerRawText(entry) ==
    IF entry.k = "string" THEN cleanQuestionText(entry.text)
    ELSE IF entry.k = "boolean" THEN QText(<<"true", 0>>, <<"true", 0>>, "none", FALSE)
    ELSE EmptyText

RECURSIVE ClientNormalizeLoop(_, _, _, _, _, _)
ClientNormalizeLoop(plan, incoming, fb, i, used, normalized) ==
    IF i > QUESTION_COUNT THEN normalized
    ELSE LET category == plan[i]
             rawText == ClientRawText(incoming[i])
             replaced == IF IsEmptyText(rawText) \/ Canonicalize(rawText) \in used
                            \/ isGenericQuestion(rawText)
                         THEN fb[i].text ELSE rawText
             text == IF i = 1 /\ category = "HR" THEN Intro ELSE replaced
         IN ClientNormalizeLoop(plan, incoming, fb, i + 1,
                                used \cup {Canonicalize(text)},
                                Append(normalized, Question(i, text, category)))

\* (a normalisation that keeps the category the response gave when it is one
\* of the two labels)
ClientQuestionsKeepCategory(plan, fb, qArray, questions) ==
    LET incoming == IF qArray THEN SubSeq(questions, 1, Min(QUESTION_COUNT, Len(questions)))
                    ELSE <<>>
        kept == ClientNormalizeLoop(plan, incoming, fb, 1, {}, <<>>)
    IN IF Len(incoming) < QUESTION_COUNT THEN fb
       ELSE [i \in 1..QUESTION_COUNT |->
                IF incoming[i].category \in {"HR", "Technical"}
                THEN [kept[i] EXCEPT !.category = incoming[i].category]
                ELSE kept[i]]

\* the body of the function generateQuestions hands to withRetry, after
\* postApi returned data: qArray is Array.isArray(data?.questions)
ClientQuestionsFromData(plan, fb, qArray, questions) ==
    LET incoming == IF qArray THEN SubSeq(questions, 1, Min(QUESTION_COUNT, Len(questions)))
                    ELSE <<>>
    IN IF Len(incoming) < QUESTION_COUNT THEN fb
       ELSE ClientNormalizeLoop(plan, incoming, fb, 1, {}, <<>>)

RECURSIVE ServerNormalizeLoop(_, _, _, _, _, _)
ServerNormalizeLoop(plan, rawQuestions, fb, i, used, normalized) ==
    IF i > QUESTION_COUNT THEN normalized
    ELSE LET category == plan[i]
             rawText == ServerRawText(rawQuestions[i])
             replaced == IF IsEmptyText(rawText) \/ ServerIsGeneric(rawText)
                            \/ Canonicalize(rawText) \in used
                         THEN fb[i].text ELSE rawText
             text == IF i = 1 /\ category = "HR" THEN Intro ELSE replaced
         IN ServerNormalizeLoop(plan, rawQuestions, fb, i + 1,
                                used \cup {Canonicalize(text)},
                                Append(normalized, Question(i, text, category)))

normalizeQuestions(qArray, rawQuestions, type, plan) ==
    LET fb == ServerFallbackQuestions(type) IN
    IF ~qArray \/ Len(rawQuestions) < QUESTION_COUNT THEN fb
    ELSE ServerNormalizeLoop(plan, rawQuestions, fb, 1, {}, <<>>)

\* the questions of a JSON response as the client reads them back
QuestionsAsEntries(questions) ==
    [i \in 1..Len(questions) |->
        Entry("string", questions[i].text, questions[i].category)]

(***************************************************************************)
(* Fallback evaluations.  An answer is what the heuristics read of it:     *)
(* len, the length of the trimmed text; words, the number of \W+ separated *)
(* words; techWords, how many words are in the backend's keyword list;     *)
(* techClient, the client's keyword pattern matches; profane, the          *)
(* backend's profanity pattern matches; assertive, the backend's           *)
(* "i will|i would|i can|i did" pattern matches.                           *)
(***************************************************************************)
Answer(len, words, techWords, techClient, profane, assertive) ==
    [ len |-> len, words |-> words, techWords |-> techWords,
      techClient |-> techClient, profane |-> profane, assertive |-> assertive ]

\* Math.round((sum / 40) * 100) in IEEE doubles: 23/40*100 is 57.49999999999999
ScorePercent(sum) == IF sum = 23 THEN 57 ELSE (sum * 25 + 5) \div 10

ClientFallbackTips ==
    << Str("Use STAR format (Situation, Task, Action, Result).", FALSE),
       Str("Tie your answer to ${config.role} responsibilities.", FALSE),
       Str("Add one metric (latency, revenue, bug reduction, etc.).", FALSE) >>

\* (a fallback whose length score is not held between 4 and 10)
ClientFallbackEvaluationUnclamped(ans) ==
    LET lengthScore == ans.len \div 40
        technical == IF ans.techClient THEN Min(10, lengthScore + 1)
                     ELSE Max(4, lengthScore - 1)
        lower == Max(4, lengthScore - 1)
    IN [ relevance |-> lengthScore,
         clarity |-> lower,
         confidence |-> lower,
         technical_depth |-> technical,
         sentiment |-> Str("neutral", FALSE),
         overall_score |-> ScorePercent(lengthScore + lower + lower + technical),
         feedback |-> Str("Local fallback mode is active (${reason}).", FALSE),
         improvement_tips |-> ClientFallbackTips ]

ClientFallbackEvaluation(ans) ==
    LET lengthScore == Min(10, Max(4, ans.len \div 40))
        technical == IF ans.techClient THEN Min(10, lengthScore + 1)
                     ELSE Max(4, lengthScore - 1)
        lower == Max(4, lengthScore - 1)
    IN [ relevance |-> lengthScore,
         clarity |-> lower,
         confidence |-> lower,
         technical_depth |-> technical,
         sentiment |-> Str("neutral", FALSE),
         overall_score |-> ScorePercent(lengthScore + lower + lower + technical),
         feedback |-> Str("Local fallback mode is active (${reason}).", FALSE),
         improvement_tips |-> ClientFallbackTips ]

ServerFallbackTips ==
    << Str("Use STAR structure: Situation, Task, Action, Result.", FALSE),
       Str("Link your points directly to ${config.role} responsibilities.", FALSE),
       Str("Add one measurable result (latency drop, defect reduction, delivery speed).", FALSE) >>

\* Math.round(2 + Math.min(6, words / 12))
ServerRelevance(words) == IF words >= 72 THEN 8 ELSE (words + 30) \div 12

ServerFallbackEvaluation(ans) ==
    LET relevance == Min(10, Max(1, ServerRelevance(ans.words)))
        clarity == IF ans.len > 40 THEN 6 ELSE 3
        confidence == IF ans.assertive THEN 7 ELSE 5
        technicalDepth == Min(10, Max(1, 2 + ans.techWords))
        penalty == IF ans.profane THEN 25 ELSE 0
        base == ScorePercent(relevance + clarity + confidence + technicalDepth)
    IN [ relevance |-> relevance,
         clarity |-> clarity,
         confidence |-> confidence,
         technical_depth |-> technicalDepth,
         sentiment |-> Str(IF ans.profane THEN "negative" ELSE "neutral", FALSE),
         overall_score |-> Min(100, Max(1, base - penalty)),
         feedback |-> Str("Evaluation fallback active (${reason}).", FALSE),
         improvement_tips |-> ServerFallbackTips ]

clamp1to10(value) == clamp(value, 1, 10, 6)
clamp1to100(value) == clamp(value, 1, 100, 65)

ClientDefaultTips ==
    << Str("Use STAR format for structure.", FALSE),
       Str("Add one concrete metric.", FALSE),
       Str("Explain your technical decision trade-offs.", FALSE) >>

\* the object evaluateAnswer builds from data?.evaluation || {}
ClientEvaluationFromData(hasEvaluation, evaluation) ==
    LET parsed == IF hasEvaluation /\ evaluation.obj THEN evaluation ELSE EmptyObject
        given == parsed.improvement_tips
    IN [ relevance |-> clamp1to10(parsed.relevance),
         clarity |-> clamp1to10(parsed.clarity),
         confidence |-> clamp1to10(parsed.confidence),
         technical_depth |-> clamp1to10(parsed.technical_depth),
         sentiment |-> IF IsNonBlankString(parsed.sentiment)
                       THEN StringTrim(parsed.sentiment) ELSE Str("neutral", FALSE),
         overall_score |-> clamp1to100(parsed.overall_score),
         feedback |-> IF IsNonBlankString(parsed.feedback)
                      THEN StringTrim(parsed.feedback)
                      ELSE Str("Good start. Add measurable outcomes and clearer technical depth.", FALSE),
         improvement_tips |-> IF given.isArray
                              THEN FirstThree(SelectSeq(given.items, IsNonBlankString))
                              ELSE ClientDefaultTips ]


(***************************************************************************)
(* The retry wrapper, the HTTP exchange and the backend's handlers          *)
(***************************************************************************)
Body(qArray, questions, hasEvaluation, evaluation, text) ==
    [ qArray |-> qArray, questions |-> questions, hasEvaluation |-> hasEvaluation,
      evaluation |-> evaluation, text |-> text ]
NoBody == Body(FALSE, <<>>, FALSE, NotAnObject, Undef)
QuestionsBody(qs) == Body(TRUE, qs, FALSE, NotAnObject, Undef)
EvaluationBody(e) == Body(FALSE, <<>>, TRUE, e, Undef)
TextBody(t) == Body(FALSE, <<>>, FALSE, NotAnObject, t)

\* origin: "backend" (an Express handler answered) or "other"; match: the
\* error message that postApi builds from the body matches the pattern
Response(origin, status, source, match, body) ==
    [ origin |-> origin, status |-> status, source |-> source, match |-> match,
      body |-> body ]
NoResponse == Response("none", 0, "none", FALSE, NoBody)

Result(outcome, from, questions, evaluation, text) ==
    [ outcome |-> outcome, from |-> from, questions |-> questions,
      evaluation |-> evaluation, text |-> text ]
NoResult == Result("pending", "none", <<>>, NoEvaluation, Undef)

\* what the LLM endpoint does with one request: status 200 with a content
\* ("json": parseable, "text": no JSON in it, "empty": no content), an error
\* status, or no response at all (status -1)
Llm(status, content, body) == [status |-> status, content |-> content, body |-> body]

\* callGroq: fetched, whether a request went out; ok, whether content came back
callGroqWithoutKeyCheck(key, llm) ==
    [ fetched |-> TRUE, ok |-> llm.status = 200 /\ llm.content # "empty" ]

callGroq(key, llm) ==
    IF ~key THEN [fetched |-> FALSE, ok |-> FALSE]
    ELSE [ fetched |-> TRUE, ok |-> llm.status = 200 /\ llm.content # "empty" ]

\* extractJsonObject(raw) returns
Parses(llm) == llm.content = "json"

\* POST /api/interview/questions
QuestionsHandler(valid, key, llm, type) ==
    IF ~valid THEN Response("backend", 400, "none", FALSE, NoBody)
    ELSE LET plan == ServerGetCategoryPlan(type) IN
         IF callGroq(key, llm).ok /\ Parses(llm)
         THEN Response("backend", 200, "groq", FALSE,
                       QuestionsBody(QuestionsAsEntries(
                           normalizeQuestions(llm.body.qArray, llm.body.questions, type, plan))))
         ELSE Response("backend", 200, "fallback", FALSE,
                       QuestionsBody(QuestionsAsEntries(ServerFallbackQuestions(type))))

\* POST /api/interview/evaluate
EvaluateHandler(valid, key, llm, ans) ==
    IF ~valid THEN Response("backend", 400, "none", FALSE, NoBody)
    ELSE IF callGroq(key, llm).ok /\ Parses(llm)
         THEN Response("backend", 200, "groq", FALSE,
                       EvaluationBody(AsRaw(normalizeEvaluation(llm.body.evaluation))))
         ELSE Response("backend", 200, "fallback", FALSE,
                       EvaluationBody(AsRaw(ServerFallbackEvaluation(ans))))

CoachUnreachable ==
    Str("I could not reach the coaching model right now. Please try again in a moment.", FALSE)

\* POST /api/interview/chat
ChatHandler(valid, key, llm) ==
    IF ~valid THEN Response("backend", 400, "none", FALSE, NoBody)
    ELSE IF callGroq(key, llm).ok
         THEN Response("backend", 200, "groq", FALSE, TextBody(llm.body.text))
         ELSE Response("backend", 200, "fallback", FALSE, TextBody(CoachUnreachable))

Handler(o, valid, key, llm, type, ans) ==
    CASE o = "questions" -> QuestionsHandler(valid, key, llm, type)
      [] o = "evaluate" -> EvaluateHandler(valid, key, llm, ans)
      [] OTHER -> ChatHandler(valid, key, llm)

\* withRetry: the error is worth another try
\* (a test that takes every error status for transient)
retriableFrom400(status, match) == status = 429 \/ status >= 400 \/ match

retriable(status, match) == status = 429 \/ status >= 500 \/ match

\* withRetry: if (retriable && retries > 0)
RetriesWithoutLimit(status, match, left) == retriable(status, match) /\ left >= 0

Retries(status, match, left) == retriable(status, match) /\ left > 0

\* Math.round(delay * 1.6)
SameDelay(d) == d

NextDelay(d) == MathRound(d * 16)

\* res.ok
Ok(status) == status >= 200 /\ status <= 299

NoReply == Str("I could not get a coach response right now. Please try again.", FALSE)
GroqUnreachable ==
    Str("I could not reach the Groq model right now. Please try again in a moment.", FALSE)

\* what the function handed to withRetry returns for the data postApi parsed
FromData(o, type, fb, body) ==
    CASE o = "questions" ->
            Result("resolved",
                   IF body.qArray /\ Len(body.questions) >= QUESTION_COUNT
                   THEN "normalized" ELSE "fallback",
                   ClientQuestionsFromData(ClientGetCategoryPlan(type), fb,
                                           body.qArray, body.questions),
                   NoEvaluation, Undef)
      [] o = "evaluate" ->
            Result("resolved", "response", <<>>,
                   ClientEvaluationFromData(body.hasEvaluation, body.evaluation), Undef)
      [] OTHER ->
            IF IsNonBlankString(body.text)
            THEN Result("resolved", "response", <<>>, NoEvaluation, body.text)
            ELSE Result("resolved", "default", <<>>, NoEvaluation, NoReply)

\* a call whose catch block hands the error on
Rethrown(o, fb, ans) == Result("rejected", "error", <<>>, NoEvaluation, Undef)

\* the catch block of generateQuestions, evaluateAnswer and chatWithAI
Caught(o, fb, ans) ==
    CASE o = "questions" -> Result("resolved", "fallback", fb, NoEvaluation, Undef)
      [] o = "evaluate" ->
            Result("resolved", "fallback", <<>>, ClientFallbackEvaluation(ans), Undef)
      [] OTHER -> Result("resolved", "fallback", <<>>, NoEvaluation, GroqUnreachable)


(***************************************************************************)
(* Inputs of the calls                                                     *)
(***************************************************************************)
CallTypes == { Str_HR, Str_Technical, Str_Mixed }
CallSeeds == { <<0, 0, 0, 0>>, <<5, 157, 28, 129>> }

\* an empty answer, 200 characters about a database (many short words and
\* "I would", or "database" and one very long word), a short rude one, a long
\* rude one about an api
AnswerInputs ==
    { Answer(0, 0, 0, FALSE, FALSE, FALSE),
      Answer(200, 34, 1, TRUE, FALSE, TRUE),
      Answer(200, 2, 1, TRUE, FALSE, FALSE),
      Answer(30, 6, 0, FALSE, TRUE, FALSE),
      Answer(460, 80, 2, TRUE, TRUE, TRUE) }
NoAnswer == Answer(0, 0, 0, FALSE, FALSE, FALSE)

ModelText(i) == QText(<<"model", i>>, <<"model", i>>, "none", FALSE)
ModelEntry(i) == Entry("string", ModelText(i), IF i % 2 = 0 THEN "HR" ELSE "Technical")
GenericEntry ==
    Entry("string", QText(<<"what are your strengths", 0>>, <<"What are your strengths?", 0>>,
                          "what are your strengths", FALSE), "HR")
SalaryEntry ==
    Entry("string", QText(<<"what are your salary expectations", 0>>,
                          <<"What are your salary expectations?", 0>>,
                          "salary expectation", FALSE), "HR")
NumberedEntry(i) == Entry("string", [ModelText(i) EXCEPT !.numbered = TRUE], "Behavioural")

\* the bodies a questions response (or the LLM's JSON) may carry
QuestionBodies ==
    { NoBody, QuestionsBody(<<>>),
      QuestionsBody([i \in 1..4 |-> ModelEntry(i)]),
      QuestionsBody([i \in 1..5 |-> ModelEntry(i)]),
      QuestionsBody([i \in 1..6 |-> ModelEntry(i)]),
      QuestionsBody(<<ModelEntry(1), ModelEntry(2), Entry("string", EmptyText, "HR"),
                      ModelEntry(4), ModelEntry(5)>>),
      QuestionsBody(<<ModelEntry(1), GenericEntry, ModelEntry(3), ModelEntry(4),
                      Entry("number", EmptyText, "HR")>>),
      QuestionsBody(<<NumberedEntry(1), ModelEntry(2), ModelEntry(3), ModelEntry(2),
                      Entry("missing", EmptyText, "")>>),
      QuestionsBody(<<ModelEntry(1), ModelEntry(2), ModelEntry(3), SalaryEntry,
                      ModelEntry(5)>>) }

\* a questions body whose 2nd entry is worded as the 3rd question of the
\* caller's fallback list, and whose 3rd entry is empty
EchoBodies(fb) ==
    { QuestionsBody(<<ModelEntry(1), Entry("string", fb[3].text, fb[3].category),
                      Entry("string", EmptyText, "HR"), ModelEntry(4), ModelEntry(5)>>) }

EvaluationBodies ==
    { NoBody, EvaluationBody(EmptyObject), EvaluationBody(NotAnObject),
      EvaluationBody(RawObject(Num(70), Num(85), Num(60), Num(40), Str("positive", TRUE),
                               Num(720), Str("well argued", FALSE),
                               [isArray |-> TRUE,
                                items |-> <<Str("tip a", FALSE), Str("tip b", TRUE),
                                            Str("tip c", FALSE)>>])),
      EvaluationBody(RawObject(Num(-30), Str("abc", FALSE), Num(250), JNull, Num(1),
                               Num(1005), Undef,
                               [isArray |-> TRUE,
                                items |-> <<Str("tip a", FALSE), Str("", TRUE)>>])) }

ChatBodies ==
    { NoBody, TextBody(Str("", TRUE)), TextBody(Num(50)),
      TextBody(Str("Lead with the result.", FALSE)) }

Bodies(o) ==
    CASE o = "questions" -> QuestionBodies
      [] o = "evaluate" -> EvaluationBodies
      [] OTHER -> ChatBodies

ErrorStatuses == { 400, 404, 429, 500, 503 }
LlmErrorStatuses == { -1, 400, 429, 500, 503 }

LlmOutcomes(o) ==
    { Llm(st, "empty", NoBody) : st \in LlmErrorStatuses }
    \cup { Llm(200, "empty", NoBody), Llm(200, "text", TextBody(Str("Sure! Here you go", FALSE))) }
    \cup { Llm(200, "json", b) : b \in Bodies(o) \ {TextBody(Str("", TRUE))} }

(***************************************************************************)
(* fallbackEvaluation applied to an answer, on the client and the backend  *)
(***************************************************************************)
AnswerLengths == { 40 * k + r : k \in 0..MaxLenBlocks, r \in {0, 1, 39} }

\* one word, words of 5 letters, or single letters
WordCounts(len) == { Min(1, len), len \div 6, (len + 1) \div 2 }

\* a keyword, a profanity or "I would" needs a text of 5 characters
Flags(len) == IF len >= 5 THEN BOOLEAN ELSE {FALSE}

FallbackAnswers ==
    UNION { UNION { { Answer(len, words, techWords, techClient, profane, assertive) :
                        techWords \in 0..Min(MaxTechWords, words),
                        techClient \in Flags(len), profane \in Flags(len),
                        assertive \in Flags(len) } :
                    words \in WordCounts(len) } :
            len \in AnswerLengths }

\* the client's fallbackEvaluation(answer, config, reason)
FallbackEvaluationClient ==
    /\ evPc = "off"
    /\ \E ans \in FallbackAnswers :
          answer' = ans /\ out1' = ClientFallbackEvaluation(ans)
    /\ evPc' = "client"
    /\ UNCHANGED <<dbVars, raw, out2, apiKey, pc, op, cfgType, fallback, retries, delay, requests,
                   waits, attempts, llmCalls, llmLast, response, result, fqVars, sesVars>>

\* the backend's fallbackEvaluation(answer, config, reason)
FallbackEvaluationServer ==
    /\ evPc = "off"
    /\ \E ans \in FallbackAnswers :
          answer' = ans /\ out2' = ServerFallbackEvaluation(ans)
    /\ evPc' = "server"
    /\ UNCHANGED <<dbVars, raw, out1, apiKey, pc, op, cfgType, fallback, retries, delay, requests,
                   waits, attempts, llmCalls, llmLast, response, result, fqVars, sesVars>>

(***************************************************************************)
(* The interview session (src/context/InterviewContext.tsx) and the        *)
(* history store (databaseService).  localStorage is taken to keep what    *)
(* setItem gives it; the sessions it holds are the values JSON.stringify   *)
(* and JSON.parse carry over unchanged (strings, numbers, arrays; a key    *)
(* whose value is undefined is left out and reads as undefined again).     *)
(***************************************************************************)
MAX_HISTORY_ITEMS == 50

NoUser == "<null>"
UserId == "u1"

\* Number.prototype.toString of a non-negative integer: its decimal digits
Digit(d) == <<"0", "1", "2", "3", "4", "5", "6", "7", "8", "9">>[d + 1]
RECURSIVE toString(_)
toString(n) == IF n < 10 THEN <<Digit(n)>> ELSE Append(toString(n \div 10), Digit(n % 10))

Config(type) == [type |-> type]
NoConfig == [type |-> <<>>]

\* endTime is <<>> when undefined, <<t>> when set
InterviewSession(id, config, questions, currentQuestionIndex, answers, startTime, endTime, status) ==
    [ id |-> id, config |-> config, questions |-> questions,
      currentQuestionIndex |-> currentQuestionIndex, answers |-> answers,
      startTime |-> startTime, endTime |-> endTime, status |-> status ]

NoSession == InterviewSession(<<>>, NoConfig, <<>>, 0, <<>>, 0, <<>>, "null")

AnswerOf(question, answerText, evaluation) ==
    [ questionId |-> question.id, questionText |-> question.text,
      answerText |-> answerText, evaluation |-> evaluation ]

isNonEmptyString(chars) == Trim(chars) # <<>>

isValidInterviewSession(value) ==
    /\ value # NoSession
    /\ isNonEmptyString(value.id)
    /\ value.config # NoConfig
    /\ value.status \in {"idle", "ongoing", "completed"}

FirstN(seq, n) == SubSeq(seq, 1, Min(n, Len(seq)))

\* Array.prototype.sort((a, b) => b.startTime - a.startTime): descending and
\* stable, so an element goes behind those that start at or after it
RECURSIVE InsertByStart(_, _)
InsertByStart(sorted, item) ==
    IF sorted = <<>> THEN <<item>>
    ELSE IF sorted[Len(sorted)].startTime >= item.startTime THEN Append(sorted, item)
    ELSE IF Head(sorted).startTime >= item.startTime
         THEN <<Head(sorted)>> \o InsertByStart(Tail(sorted), item)
         ELSE <<item>> \o sorted

RECURSIVE SortNewestFirst(_, _)
SortNewestFirst(sorted, rest) ==
    IF rest = <<>> THEN sorted
    ELSE SortNewestFirst(InsertByStart(sorted, Head(rest)), Tail(rest))

\* db.getHistory: what it returns and what the storage holds afterwards
getHistory(rawHistory) ==
    LET validHistory ==
            FirstN(SortNewestFirst(<<>>, SelectSeq(rawHistory, isValidInterviewSession)),
                   MAX_HISTORY_ITEMS)
    IN [ history |-> validHistory,
         stored |-> IF Len(validHistory) # Len(rawHistory) THEN validHistory
                    ELSE rawHistory ]

HasId(history, id) == \E i \in 1..Len(history) : history[i].id = id

\* (a save that does not look for the id)
saveInterviewSessionTwice(rawHistory, saved) ==
    FirstN(<<saved>> \o getHistory(rawHistory).history, MAX_HISTORY_ITEMS)

\* (a save that keeps every session)
saveInterviewSessionUncapped(rawHistory, saved) ==
    LET read == getHistory(rawHistory) IN
    IF HasId(read.history, saved.id) THEN read.stored
    ELSE <<saved>> \o read.history

\* db.saveInterviewSession: what the storage holds afterwards
saveInterviewSession(rawHistory, saved) ==
    LET read == getHistory(rawHistory) IN
    IF HasId(read.history, saved.id) THEN read.stored
    ELSE FirstN(<<saved>> \o read.history, MAX_HISTORY_ITEMS)

NoSave == [id |-> <<>>, existed |-> FALSE, before |-> <<>>]

\* a call in flight: what its closure holds
Call(kind, config, held, heldUser, answerText) ==
    [ kind |-> kind, config |-> config, session |-> held, user |-> heldUser,
      answerText |-> answerText ]

Without(seq, i) == SubSeq(seq, 1, i - 1) \o SubSeq(seq, i + 1, Len(seq))

SesIdle ==
    /\ ui = TRUE /\ user = NoUser /\ session = NoSession /\ loading = FALSE
    /\ error = "null" /\ calls = <<>> /\ now = 0 /\ started = 0 /\ store = <<>>
    /\ lastSave = NoSave /\ settled = <<>> /\ early = 0 /\ returned = 0

(***************************************************************************)
(* The session's operations.  A call of startInterview or submitAnswer     *)
(* runs to its await of aiService, stays in flight while the request is    *)
(* out (a millisecond or more), and resumes in one piece: the awaits       *)
(* inside db.saveInterviewSession give way to pending promise reactions    *)
(* only, never to an event or a response.                                   *)
(***************************************************************************)
SessionTypes == { Str_Mixed }
SessionAnswers == { Answer(200, 34, 1, TRUE, FALSE, TRUE), Answer(30, 6, 0, FALSE, TRUE, FALSE) }

\* the answer a caller of the context gives as its answer number n + 1
CallerAnswers(n) ==
    { IF n % 2 = 0 THEN Answer(200, 34, 1, TRUE, FALSE, TRUE) ELSE Answer(30, 6, 0, FALSE, TRUE, FALSE) }

\* what aiService.generateQuestions and aiService.evaluateAnswer resolve with
SessionQuestions(config) == { ClientFallbackQuestions(config.type, <<5, 157, 28, 129>>) }
SessionEvaluations(ans) == { ClientFallbackEvaluation(ans) }

\* SetupPage: the start button is disabled={loading}
StartEnabled == ~loading

\* (a submit button that stays enabled while loading)
SubmitEnabledWhileLoading == session # NoSession /\ session.status = "ongoing"

\* SessionPage: it renders nothing without a session, leaves for /results
\* once the session is completed, and its submit button is
\* disabled={loading || isRecording || !transcript}
SubmitEnabled == session # NoSession /\ session.status = "ongoing" /\ ~loading

\* ResultsPage: the restart button shows for a completed session with answers
ResetEnabled ==
    session # NoSession /\ session.status = "completed" /\ Len(session.answers) > 0

startInterview ==
    /\ IF ui THEN StartEnabled ELSE calls = <<>>
    /\ started < (IF ui THEN MaxSessions ELSE MaxCallerSessions) /\ Len(calls) < MaxInFlight
    /\ \E type \in SessionTypes :
          calls' = Append(calls, Call("start", Config(type), session, user, NoAnswer))
    /\ loading' = TRUE /\ error' = "null" /\ started' = started + 1
    /\ UNCHANGED <<dbVars, returned, ui, user, session, now, store, lastSave, settled, early,
                   callVars, fqVars, evVars>>

\* generateQuestions resolved (it never rejects): setSession, setLoading(false);
\* Date.now().toString() and Date.now() read the same millisecond
startInterviewResumes ==
    /\ \E i \in 1..Len(calls) :
          /\ calls[i].kind = "start"
          /\ \E questions \in SessionQuestions(calls[i].config) :
                session' = InterviewSession(toString(now + 1), calls[i].config, questions,
                                            0, <<>>, now + 1, <<>>, "ongoing")
          /\ now' = now + 1
          /\ settled' = (toString(now + 1) :> <<>>) @@ settled
          /\ calls' = Without(calls, i)
    /\ loading' = FALSE
    /\ UNCHANGED <<dbVars, returned, ui, user, error, started, store, lastSave, early,
                   callVars, fqVars, evVars>>

\* (an update that stamps the session anew)
UpdatedSessionRestamped(held, newAnswer, endTime) ==
    LET isLastQuestion == held.currentQuestionIndex = Len(held.questions) - 1 IN
    [ held EXCEPT !.answers = Append(@, newAnswer),
                  !.currentQuestionIndex = IF isLastQuestion THEN @ ELSE @ + 1,
                  !.status = IF isLastQuestion THEN "completed" ELSE "ongoing",
                  !.endTime = IF isLastQuestion THEN <<endTime>> ELSE <<>>,
                  !.id = toString(endTime), !.startTime = endTime ]

\* (an update that moves to the next index after the last question too)
UpdatedSessionAlwaysAdvancing(held, newAnswer, endTime) ==
    LET isLastQuestion == held.currentQuestionIndex = Len(held.questions) - 1 IN
    [ held EXCEPT !.answers = Append(@, newAnswer),
                  !.currentQuestionIndex = @ + 1,
                  !.status = IF isLastQuestion THEN "completed" ELSE "ongoing",
                  !.endTime = IF isLastQuestion THEN <<endTime>> ELSE <<>> ]

\* (an update that never sets endTime)
UpdatedSessionNoEndTime(held, newAnswer, endTime) ==
    LET isLastQuestion == held.currentQuestionIndex = Len(held.questions) - 1 IN
    [ held EXCEPT !.answers = Append(@, newAnswer),
                  !.currentQuestionIndex = IF isLastQuestion THEN @ ELSE @ + 1,
                  !.status = IF isLastQuestion THEN "completed" ELSE "ongoing",
                  !.endTime = <<>> ]

\* submitAnswer: updatedSession, built from the session the closure holds
UpdatedSession(held, newAnswer, endTime) ==
    LET isLastQuestion == held.currentQuestionIndex = Len(held.questions) - 1 IN
    [ held EXCEPT !.answers = Append(@, newAnswer),
                  !.currentQuestionIndex = IF isLastQuestion THEN @ ELSE @ + 1,
                  !.status = IF isLastQuestion THEN "completed" ELSE "ongoing",
                  !.endTime = IF isLastQuestion THEN <<endTime>> ELSE <<>> ]

submitAnswer ==
    /\ session # NoSession
    /\ IF ui THEN SubmitEnabled ELSE calls = <<>>
    /\ Len(session.answers) < MaxAnswers /\ Len(calls) < MaxInFlight
    /\ \E ans \in IF ui THEN SessionAnswers ELSE CallerAnswers(Len(session.answers)) :
          calls' = Append(calls, Call("submit", session.config, session, user, ans))
    /\ loading' = TRUE /\ error' = "null"
    /\ UNCHANGED <<dbVars, returned, ui, user, session, now, started, store, lastSave, settled, early,
                   callVars, fqVars, evVars>>

\* evaluateAnswer resolved (it never rejects): setSession(updatedSession),
\* the save of a completed session when a user is signed in, setLoading(false)
submitAnswerResumes ==
    /\ \E i \in 1..Len(calls) :
          /\ calls[i].kind = "submit"
          /\ \E evaluation \in SessionEvaluations(calls[i].answerText) :
                LET held == calls[i].session
                    currentQuestion == held.questions[held.currentQuestionIndex + 1]
                    newAnswer == AnswerOf(currentQuestion, calls[i].answerText, evaluation)
                    isLastQuestion == held.currentQuestionIndex = Len(held.questions) - 1
                    updatedSession == UpdatedSession(held, newAnswer, now + 1)
                IN /\ session' = updatedSession
                   /\ IF isLastQuestion /\ calls[i].user # NoUser
                      THEN /\ store' = saveInterviewSession(store, updatedSession)
                           /\ lastSave' = [ id |-> updatedSession.id,
                                            existed |-> HasId(store, updatedSession.id),
                                            before |-> store ]
                      ELSE UNCHANGED <<store, lastSave>>
                   /\ settled' = [settled EXCEPT ![held.id] = Append(@, calls[i].answerText)]
          /\ calls' = Without(calls, i)
    /\ now' = now + 1
    /\ loading' = FALSE
    /\ UNCHANGED <<dbVars, returned, ui, user, error, started, early, callVars, fqVars, evVars>>

resetInterview ==
    /\ ui => ResetEnabled
    /\ session' = NoSession /\ error' = "null"
    /\ UNCHANGED <<dbVars, returned, ui, user, loading, calls, now, started, store, lastSave, settled,
                   early, callVars, fqVars, evVars>>

\* (a submitAnswer that sets loading before it looks at the session)
submitAnswerWithoutSessionLoading(held, isLoading, message) == [session |-> held, loading |-> TRUE, error |-> "null"]

\* submitAnswer: if (!session) return;
submitAnswerWithoutSession(held, isLoading, message) == [session |-> held, loading |-> isLoading, error |-> message]

\* submitAnswer called when the session is null: the pages never do it
\* (SessionPage renders nothing without a session), a caller of the context may
submitAnswerReturns ==
    /\ ~ui /\ calls = <<>> /\ session = NoSession /\ returned < MaxReturned
    /\ LET after == submitAnswerWithoutSession(session, loading, error)
       IN session' = after.session /\ loading' = after.loading /\ error' = after.error
    /\ returned' = returned + 1
    /\ UNCHANGED <<dbVars, ui, user, calls, now, started, store, lastSave, settled, early,
                   callVars, fqVars, evVars>>

\* what setError gets in the catch block: err.message, or the text in its place
ErrorMessages(kind) ==
    { "err.message",
      IF kind = "start" THEN "Failed to generate interview questions."
                        ELSE "Evaluation failed. Please try again." }

\* startInterview, something in its try block having thrown: catch, finally
startInterviewRaises ==
    /\ \E i \in 1..Len(calls) :
          /\ calls[i].kind = "start"
          /\ calls' = Without(calls, i)
    /\ \E message \in ErrorMessages("start") : error' = message
    /\ loading' = FALSE
    /\ UNCHANGED <<dbVars, returned, ui, user, session, now, started, store, lastSave, settled,
                   early, callVars, fqVars, evVars>>

\* submitAnswer, something in its try block having thrown: catch, finally.
\* It throws before setSession(updatedSession), or in the awaited save of a
\* completed session after it, before anything is written.
submitAnswerRaises ==
    /\ \E i \in 1..Len(calls) :
          /\ calls[i].kind = "submit"
          /\ calls' = Without(calls, i)
          /\ LET held == calls[i].session
                 isLastQuestion == held.currentQuestionIndex = Len(held.questions) - 1
             IN \/ UNCHANGED <<session, settled, now>>
                \/ /\ isLastQuestion /\ calls[i].user # NoUser
                   /\ \E evaluation \in SessionEvaluations(calls[i].answerText) :
                         session' = UpdatedSession(held,
                                        AnswerOf(held.questions[held.currentQuestionIndex + 1],
                                                 calls[i].answerText, evaluation), now + 1)
                   /\ settled' = [settled EXCEPT ![held.id] = Append(@, calls[i].answerText)]
                   /\ now' = now + 1
    /\ \E message \in ErrorMessages("submit") : error' = message
    /\ loading' = FALSE
    /\ UNCHANGED <<dbVars, returned, ui, user, started, store, lastSave, early,
                   callVars, fqVars, evVars>>

(***************************************************************************)
(* The history store called directly, with sessions of any start time      *)
(***************************************************************************)
StoredSession(k, startTime) ==
    InterviewSession(toString(k), Config(Str_Mixed), <<>>, 0, <<>>, startTime,
                     <<startTime>>, "completed")

Save(saved) ==
    /\ store' = saveInterviewSession(store, saved)
    /\ lastSave' = [id |-> saved.id, existed |-> HasId(store, saved.id), before |-> store]

\* a new session that started after every saved one
SaveNext ==
    /\ now < MaxSaves
    /\ now' = now + 1
    /\ Save(StoredSession(now + 1, now + 1))
    /\ UNCHANGED <<dbVars, returned, ui, user, session, loading, error, calls, started, settled, early,
                   callVars, fqVars, evVars>>

\* a new session that started before some saved one (another tab finished first)
SaveEarlier ==
    /\ now < MaxSaves /\ early < MaxEarlier /\ now >= 1
    /\ now' = now + 1 /\ early' = early + 1
    /\ Save(StoredSession(now + 1, 0))
    /\ UNCHANGED <<dbVars, returned, ui, user, session, loading, error, calls, started, settled,
                   callVars, fqVars, evVars>>

\* a session saved before: the first one of all, or the one at the head of the store
SaveAgain ==
    /\ store # <<>>
    /\ \E saved \in {StoredSession(1, 1), store[1]} : Save(saved)
    /\ UNCHANGED <<dbVars, returned, ui, user, session, loading, error, calls, now, started, settled,
                   early, callVars, fqVars, evVars>>

(***************************************************************************)
(* The accounts: AuthProvider (src/context/AuthContext.tsx) over the       *)
(* credential list, the profiles and the session pointer that              *)
(* databaseService keeps in localStorage.  Ids, emails and password hashes *)
(* are the ones signup makes: a fresh non-blank id, the email of a         *)
(* required email field, the hex digest of the password.                   *)
(***************************************************************************)
\* the emails typed: one address in two spellings, and another address
Emails == {<<"a">>, <<" ", "A">>, <<"b">>}
Names == {<<"N">>, <<" ">>}
Passwords == {"pw1", "pw2"}

\* generateUserId: crypto.randomUUID() (or the clock where there is none), a new id at
\* each call
generateUserId(n) == <<"u1", "u2", "u3", "u4", "u5", "u6", "u7", "u8">>[n]

\* SHA-256 in hex: one digest per password, never empty
hashPassword(password) == <<"sha256", password>>

normalizeEmail(email) == ToLowerCase(Trim(email))

AuthUser(id, email, passwordHash) == [id |-> id, email |-> email, passwordHash |-> passwordHash]

isValidAuthUser(value) ==
    value.id # "" /\ isNonEmptyString(value.email) /\ value.passwordHash # <<>>

\* db.getUsers: what it returns and what the storage holds afterwards
getUsers(rawUsers) ==
    LET valid == SelectSeq(rawUsers, isValidAuthUser)
        validUsers == [i \in 1..Len(valid) |-> [valid[i] EXCEPT !.email = normalizeEmail(@)]]
    IN [ users |-> validUsers,
         stored |-> IF Len(validUsers) # Len(rawUsers) THEN validUsers ELSE rawUsers ]

\* Array.prototype.findIndex on the normalized emails; 0 for -1
FindIndexByEmail(users, normalizedEmail) ==
    LET hits == { i \in 1..Len(users) : normalizeEmail(users[i].email) = normalizedEmail }
    IN IF hits = {} THEN 0 ELSE CHOOSE i \in hits : \A j \in hits : i <= j

\* (a save that looks for the email as it was typed)
saveUserAsTyped(users, newUser) ==
    LET hits == { i \in 1..Len(users) : users[i].email = newUser.email }
        normalizedUser == AuthUser(newUser.id, normalizeEmail(newUser.email), newUser.passwordHash)
    IN IF hits # {} THEN [users EXCEPT ![CHOOSE i \in hits : TRUE] = normalizedUser]
       ELSE Append(users, normalizedUser)

\* db.saveUser after its await: users is what getUsers returned; gives what
\* the storage holds afterwards
saveUser(users, newUser) ==
    LET normalizedUser == AuthUser(newUser.id, normalizeEmail(newUser.email), newUser.passwordHash)
        index == FindIndexByEmail(users, normalizedUser.email)
    IN IF index > 0 THEN [users EXCEPT ![index] = normalizedUser]
       ELSE Append(users, normalizedUser)

\* db.updatePassword after its await: users is what getUsers returned and
\* stored what it left in the storage; gives the error thrown, if any, and
\* what the storage holds afterwards
updatePassword(users, stored, email, newPasswordHash) ==
    LET index == FindIndexByEmail(users, normalizeEmail(email))
    IN IF index = 0 THEN [error |-> "Account not found.", stored |-> stored]
       ELSE [ error |-> "null",
              stored |-> [users EXCEPT ![index].passwordHash = newPasswordHash] ]

\* a call that settled
SettledCall(kind, email, id, passwordHash, message) ==
    [kind |-> kind, email |-> email, id |-> id, passwordHash |-> passwordHash, error |-> message]

DbIdle ==
    /\ authUsers = <<>> /\ profiles = {} /\ current = NoUser /\ notes = <<>>
    /\ ops = <<>> /\ micro = <<>> /\ issued = 0 /\ finished = <<>>

\* db.saveUser, called and awaited by itself
SaveUser ==
    /\ issued < MaxOps /\ ops = <<>>
    /\ \E email \in Emails, password \in Passwords :
          LET newUser == AuthUser(generateUserId(issued + 1), email, hashPassword(password))
              read == getUsers(authUsers)
          IN /\ authUsers' = saveUser(read.users, newUser)
             /\ finished' = Append(finished, SettledCall("saveUser", email, newUser.id,
                                                     newUser.passwordHash, "null"))
    /\ issued' = issued + 1
    /\ UNCHANGED <<profiles, current, notes, ops, micro, callVars, fqVars, evVars, sesVars>>

\* db.updatePassword, called and awaited by itself
UpdatePassword ==
    /\ issued < MaxOps /\ ops = <<>>
    /\ \E email \in Emails, password \in Passwords :
          LET read == getUsers(authUsers)
              done == updatePassword(read.users, read.stored, email, hashPassword(password))
          IN /\ authUsers' = done.stored
             /\ finished' = Append(finished, SettledCall("updatePassword", email, NoUser,
                                                     hashPassword(password), done.error))
    /\ issued' = issued + 1
    /\ UNCHANGED <<profiles, current, notes, ops, micro, callVars, fqVars, evVars, sesVars>>

(***************************************************************************)
(* The same calls as the pages make them, on the browser's event loop.  A  *)
(* task (a form submitted, crypto.subtle.digest settling, submitAnswer     *)
(* resumed by a response) starts when the microtask queue is empty; an     *)
(* await of a promise that is already resolved (db.getUsers,               *)
(* db.getHistory, db.saveUser, db.updateProfile) puts the rest of the call *)
(* on the microtask queue; an await of the digest waits for a later task.  *)
(* AuthProvider's own loading flag is left out.                            *)
(***************************************************************************)
\* the session state the accounts do not touch
sesRest == <<ui, session, loading, error, calls, started, lastSave, settled, early, returned>>

\* a call in flight: what it awaits and what its closure holds (held is the
\* list its last getUsers or getHistory returned)
Op(n, kind, at, name, email, password, id, held, saved) ==
    [ n |-> n, kind |-> kind, at |-> at, name |-> name, email |-> email,
      password |-> password, id |-> id, held |-> held, saved |-> saved ]

OpIndex(n) == CHOOSE i \in 1..Len(ops) : ops[i].n = n

Notification(message, type) == [message |-> message, type |-> type]

UserProfile(id, name, email) == [id |-> id, name |-> name, email |-> email]

sanitizeProfile(input) ==
    UserProfile(input.id,
                IF isNonEmptyString(input.name) THEN Trim(input.name) ELSE <<"Candidate">>,
                IF isNonEmptyString(input.email) THEN normalizeEmail(input.email) ELSE <<>>)

\* db.updateProfile: the profiles stored afterwards, one per id
updateProfile(stored, profile) ==
    { p \in stored : p.id # profile.id } \cup {sanitizeProfile(profile)}

\* (a check on the email as it was typed)
isRegisteredAsTyped(users, email) == \E k \in 1..Len(users) : users[k].email = email

\* signup: users.some((u) => normalizeEmail(u.email) === normalizedEmail)
isRegistered(users, email) ==
    \E k \in 1..Len(users) : normalizeEmail(users[k].email) = normalizeEmail(email)

\* (a save that goes by the list signup read before the digest)
saveUserHeldUsers(held, rawUsers) == [users |-> held, stored |-> rawUsers]

\* db.saveUser up to its await: const users = await this.getUsers()
saveUserGetUsers(held, rawUsers) == getUsers(rawUsers)

\* signup up to its first await; a blank name throws at once
Signup ==
    /\ micro = <<>> /\ issued - now < MaxOps
    /\ \E name \in Names : \E email \in (IF Trim(name) = <<>> THEN {<<"a">>} ELSE Emails) :
       \E password \in {"pw1"} :
          IF Trim(name) = <<>>
          THEN /\ notes' = Append(notes, Notification("Name is required.", "error"))
               /\ finished' = Append(finished, SettledCall("signup", email, NoUser, <<>>,
                                                           "Name is required."))
               /\ UNCHANGED <<authUsers, ops, micro>>
          ELSE LET read == getUsers(authUsers)
               IN /\ authUsers' = read.stored
                  /\ ops' = Append(ops, Op(issued + 1, "signup", "getUsers", Trim(name), email,
                                           password, NoUser, read.users, NoSession))
                  /\ micro' = Append(micro, issued + 1)
                  /\ UNCHANGED <<notes, finished>>
    /\ issued' = issued + 1
    /\ UNCHANGED <<profiles, current, user, store, now, sesRest, callVars, fqVars, evVars>>

\* signup after db.getUsers: the duplicate check, then the digest is asked for
SignupChecks ==
    /\ micro # <<>>
    /\ LET i == OpIndex(Head(micro))
           o == ops[i]
           message == "This email is already registered. Try signing in."
       IN /\ o.kind = "signup" /\ o.at = "getUsers"
          /\ IF isRegistered(o.held, o.email)
             THEN /\ notes' = Append(notes, Notification(message, "error"))
                  /\ finished' = Append(finished, SettledCall("signup", o.email, NoUser, <<>>,
                                                              message))
                  /\ ops' = Without(ops, i)
             ELSE /\ ops' = [ops EXCEPT ![i].at = "hashPassword", ![i].id = generateUserId(o.n)]
                  /\ UNCHANGED <<notes, finished>>
    /\ micro' = Tail(micro)
    /\ UNCHANGED <<authUsers, profiles, current, issued, user, store, now, sesRest,
                   callVars, fqVars, evVars>>

\* the digest settles: signup goes on to db.saveUser, which reads the list
SignupHashed ==
    /\ micro = <<>>
    /\ \E i \in 1..Len(ops) :
          /\ ops[i].kind = "signup" /\ ops[i].at = "hashPassword"
          /\ LET read == saveUserGetUsers(ops[i].held, authUsers)
             IN /\ authUsers' = read.stored
                /\ ops' = [ops EXCEPT ![i].at = "saveUser", ![i].held = read.users]
          /\ micro' = <<ops[i].n>>
    /\ UNCHANGED <<profiles, current, notes, issued, finished, user, store, now, sesRest,
                   callVars, fqVars, evVars>>

\* db.saveUser after its await writes the list; signup resumes after it
SaveUserWrites ==
    /\ micro # <<>>
    /\ LET i == OpIndex(Head(micro))
           o == ops[i]
       IN /\ o.kind = "signup" /\ o.at = "saveUser"
          /\ authUsers' = saveUser(o.held, AuthUser(o.id, normalizeEmail(o.email),
                                                    hashPassword(o.password)))
          /\ ops' = [ops EXCEPT ![i].at = "updateProfile"]
          /\ micro' = Append(Tail(micro), o.n)
    /\ UNCHANGED <<profiles, current, notes, issued, finished, user, store, now, sesRest,
                   callVars, fqVars, evVars>>

\* signup after db.saveUser: the profile, the signed-in user, the pointer
SignupCompletes ==
    /\ micro # <<>>
    /\ LET i == OpIndex(Head(micro))
           o == ops[i]
           initialProfile == UserProfile(o.id, o.name, normalizeEmail(o.email))
       IN /\ o.kind = "signup" /\ o.at = "updateProfile"
          /\ profiles' = updateProfile(profiles, initialProfile)
          /\ user' = initialProfile.id
          /\ current' = initialProfile.id
          /\ notes' = Append(notes, Notification("Account created! Welcome to HireAI.", "success"))
          /\ finished' = Append(finished, SettledCall("signup", o.email, o.id,
                                                      hashPassword(o.password), "null"))
          /\ ops' = Without(ops, i)
    /\ micro' = Tail(micro)
    /\ UNCHANGED <<authUsers, issued, store, now, sesRest, callVars, fqVars, evVars>>

\* resetPassword up to its first await, the digest
ResetPassword ==
    /\ micro = <<>> /\ issued - now < MaxOps
    /\ \E email \in Emails, password \in {"pw2"} :
          ops' = Append(ops, Op(issued + 1, "resetPassword", "hashPassword", <<>>, email,
                                password, NoUser, <<>>, NoSession))
    /\ issued' = issued + 1
    /\ UNCHANGED <<authUsers, profiles, current, notes, micro, finished, user, store, now, sesRest,
                   callVars, fqVars, evVars>>

\* the digest settles: resetPassword goes on to db.updatePassword, which reads the list
ResetHashed ==
    /\ micro = <<>>
    /\ \E i \in 1..Len(ops) :
          /\ ops[i].kind = "resetPassword" /\ ops[i].at = "hashPassword"
          /\ LET read == getUsers(authUsers)
             IN /\ authUsers' = read.stored
                /\ ops' = [ops EXCEPT ![i].at = "updatePassword", ![i].held = read.users]
          /\ micro' = <<ops[i].n>>
    /\ UNCHANGED <<profiles, current, notes, issued, finished, user, store, now, sesRest,
                   callVars, fqVars, evVars>>

\* db.updatePassword after its await, and what resetPassword shows for it
UpdatePasswordWrites ==
    /\ micro # <<>>
    /\ LET i == OpIndex(Head(micro))
           o == ops[i]
           done == updatePassword(o.held, authUsers, o.email, hashPassword(o.password))
       IN /\ o.kind = "resetPassword" /\ o.at = "updatePassword"
          /\ authUsers' = done.stored
          /\ notes' = Append(notes,
                IF done.error = "null"
                THEN Notification("Password updated! You can now log in with your new password.",
                                  "success")
                ELSE Notification("Failed to reset password. Please check the email and try again.",
                                  "error"))
          /\ finished' = Append(finished, SettledCall("resetPassword", o.email, NoUser,
                                                      hashPassword(o.password), done.error))
          /\ ops' = Without(ops, i)
    /\ micro' = Tail(micro)
    /\ UNCHANGED <<profiles, current, issued, user, store, now, sesRest, callVars, fqVars, evVars>>

\* submitAnswer, resumed by the last evaluation, calls db.saveInterviewSession,
\* which reads the history; the history kept here is that of the account UserId
SaveInterviewSessionReads ==
    /\ micro = <<>> /\ now < MaxHistoryOps /\ user = UserId
    /\ LET read == getHistory(store)
       IN /\ store' = read.stored
          /\ ops' = Append(ops, Op(issued + 1, "saveInterviewSession", "getHistory", <<>>, <<>>,
                                   "", user, read.history, StoredSession(now + 1, now + 1)))
    /\ micro' = <<issued + 1>>
    /\ issued' = issued + 1 /\ now' = now + 1
    /\ UNCHANGED <<authUsers, profiles, current, notes, finished, user, sesRest,
                   callVars, fqVars, evVars>>

\* db.saveInterviewSession after its await
SaveInterviewSessionWrites ==
    /\ micro # <<>>
    /\ LET i == OpIndex(Head(micro))
           o == ops[i]
       IN /\ o.kind = "saveInterviewSession" /\ o.at = "getHistory"
          /\ store' = IF HasId(o.held, o.saved.id) THEN store
                      ELSE saveInterviewSession(o.held, o.saved)
          /\ finished' = Append(finished, SettledCall("saveInterviewSession", o.saved.id, o.id,
                                                      <<>>, "null"))
          /\ ops' = Without(ops, i)
    /\ micro' = Tail(micro)
    /\ UNCHANGED <<authUsers, profiles, current, notes, issued, user, now, sesRest,
                   callVars, fqVars, evVars>>

(***************************************************************************)
(* One call of aiService                                                   *)
(***************************************************************************)
CallIdle ==
    /\ pc = "idle" /\ op = "none" /\ cfgType = <<>> /\ answer = NoAnswer
    /\ fallback = <<>> /\ retries = 0 /\ delay = 0 /\ requests = 0 /\ waits = <<>>
    /\ attempts = <<>> /\ llmCalls = 0 /\ llmLast = 0
    /\ response = NoResponse /\ result = NoResult

Init == apiKey \in BOOLEAN /\ CallIdle /\ FqIdle /\ EvIdle /\ SesIdle /\ DbIdle

\* withRetry(fn) is entered with retries = MAX_RETRIES, delay = INITIAL_BACKOFF
EnterRetry ==
    /\ retries' = MAX_RETRIES /\ delay' = INITIAL_BACKOFF
    /\ requests' = 0 /\ waits' = <<>> /\ attempts' = <<>>
    /\ llmCalls' = 0 /\ llmLast' = 0 /\ response' = NoResponse /\ result' = NoResult
    /\ pc' = "attempt"

generateQuestions ==
    /\ pc = "idle"
    /\ \E type \in CallTypes, seed \in CallSeeds :
          /\ cfgType' = type
          /\ fallback' = ClientFallbackQuestions(type, seed)
    /\ op' = "questions" /\ answer' = NoAnswer
    /\ EnterRetry
    /\ UNCHANGED <<dbVars, apiKey, fqVars, evVars, sesVars>>

evaluateAnswer ==
    /\ pc = "idle"
    /\ \E type \in CallTypes, ans \in AnswerInputs :
          /\ cfgType' = type
          /\ answer' = ans
    /\ op' = "evaluate" /\ fallback' = <<>>
    /\ EnterRetry
    /\ UNCHANGED <<dbVars, apiKey, fqVars, evVars, sesVars>>

chatWithAI ==
    /\ pc = "idle"
    /\ op' = "chat" /\ cfgType' = <<>> /\ answer' = NoAnswer /\ fallback' = <<>>
    /\ EnterRetry
    /\ UNCHANGED <<dbVars, apiKey, fqVars, evVars, sesVars>>

\* fn threw an error with this status and message: withRetry's catch block,
\* and the caller's catch block when withRetry throws in turn
Throws(status, match) ==
    /\ requests' = requests + 1
    /\ attempts' = Append(attempts, <<status, match>>)
    /\ IF Retries(status, match, retries)
       THEN pc' = "sleeping" /\ UNCHANGED result
       ELSE pc' = "done" /\ result' = Caught(op, fallback, answer)

\* fn returned: postApi got a 2xx response with this body
Returns(body) ==
    /\ requests' = requests + 1
    /\ attempts' = Append(attempts, <<200, FALSE>>)
    /\ pc' = "done"
    /\ result' = FromData(op, cfgType, fallback, body)

\* fetch or res.text() rejects: the error carries no status
FetchRejects ==
    /\ pc = "attempt"
    /\ \E match \in BOOLEAN :
          /\ response' = Response("none", 0, "none", match, NoBody)
          /\ Throws(0, match)
    /\ UNCHANGED <<dbVars, apiKey, op, cfgType, answer, fallback, retries, delay, waits,
                   llmCalls, llmLast, fqVars, evVars, sesVars>>

\* something on the way (a proxy, a gateway, a rate limiter) answers with an
\* error status; its body makes the message
ErrorResponse ==
    /\ pc = "attempt"
    /\ \E status \in ErrorStatuses, match \in BOOLEAN :
          /\ response' = Response("other", status, "none", match, NoBody)
          /\ Throws(status, match)
    /\ UNCHANGED <<dbVars, apiKey, op, cfgType, answer, fallback, retries, delay, waits,
                   llmCalls, llmLast, fqVars, evVars, sesVars>>

\* a 2xx response with any body, unparseable ones read as {}
OkResponse ==
    /\ pc = "attempt"
    /\ \E body \in Bodies(op) \cup (IF op = "questions" THEN EchoBodies(fallback) ELSE {}) :
          /\ response' = Response("other", 200, "none", FALSE, body)
          /\ Returns(body)
    /\ UNCHANGED <<dbVars, apiKey, op, cfgType, answer, fallback, retries, delay, waits,
                   llmCalls, llmLast, fqVars, evVars, sesVars>>

\* the request reaches the Express handler, which validates the payload,
\* calls the LLM once at most and answers
BackendResponse ==
    /\ pc = "attempt"
    /\ \E valid \in BOOLEAN, llm \in LlmOutcomes(op) :
          LET resp == Handler(op, valid, apiKey, llm, cfgType, answer)
              asked == valid /\ callGroq(apiKey, llm).fetched
          IN /\ response' = resp
             /\ llmCalls' = IF asked THEN llmCalls + 1 ELSE llmCalls
             /\ llmLast' = IF asked THEN llm.status ELSE llmLast
             /\ IF Ok(resp.status) THEN Returns(resp.body)
                ELSE Throws(resp.status, resp.match)
    /\ UNCHANGED <<dbVars, apiKey, op, cfgType, answer, fallback, retries, delay, waits,
                   fqVars, evVars, sesVars>>

\* setTimeout(resolve, delay) fires: withRetry(fn, retries - 1, delay * 1.6)
BackoffElapses ==
    /\ pc = "sleeping"
    /\ waits' = Append(waits, delay)
    /\ retries' = retries - 1
    /\ delay' = NextDelay(delay)
    /\ pc' = "attempt"
    /\ UNCHANGED <<dbVars, apiKey, op, cfgType, answer, fallback, requests, attempts,
                   llmCalls, llmLast, response, result, fqVars, evVars, sesVars>>

\* the caller takes the settled promise
Settled ==
    /\ pc = "done"
    /\ pc' = "idle" /\ op' = "none" /\ cfgType' = <<>> /\ answer' = NoAnswer
    /\ fallback' = <<>> /\ retries' = 0 /\ delay' = 0 /\ requests' = 0 /\ waits' = <<>>
    /\ attempts' = <<>> /\ llmCalls' = 0 /\ llmLast' = 0
    /\ response' = NoResponse /\ result' = NoResult
    /\ UNCHANGED <<dbVars, apiKey, fqVars, evVars, sesVars>>

Next ==
    \/ generateQuestions \/ evaluateAnswer \/ chatWithAI
    \/ FetchRejects \/ ErrorResponse \/ OkResponse \/ BackendResponse
    \/ BackoffElapses \/ Settled

Spec == Init /\ [][Next]_vars

InitQuestions == apiKey = FALSE /\ CallIdle /\ FqInit /\ EvIdle /\ SesIdle /\ DbIdle
NextQuestions == GetCategoryPlan \/ FallbackQuestionsClient \/ FallbackQuestionsServer
SpecQuestions == InitQuestions /\ [][NextQuestions]_vars

InitEvaluation == apiKey = FALSE /\ CallIdle /\ EvInit /\ FqIdle /\ SesIdle /\ DbIdle
NextEvaluation == NormalizeOnce \/ NormalizeTwice
SpecEvaluation == InitEvaluation /\ [][NextEvaluation]_vars

InitFallback == apiKey = FALSE /\ CallIdle /\ FqIdle /\ EvIdle /\ SesIdle /\ DbIdle
NextFallback == FallbackEvaluationClient \/ FallbackEvaluationServer
SpecFallback == InitFallback /\ [][NextFallback]_vars

\* fallbackQuestions for the three interview types, and single picks
InitPick ==
    /\ apiKey = FALSE /\ CallIdle /\ EvIdle /\ SesIdle /\ DbIdle
    /\ fqPc = "config" /\ fqType \in CallTypes /\ fqSeed \in SeedInputs
    /\ planClient = <<>> /\ planServer = <<>> /\ fbClient = <<>> /\ fbServer = <<>>
    /\ pick = NoPick
NextPick ==
    GetCategoryPlan \/ FallbackQuestionsClient \/ FallbackQuestionsServer \/ PickUniqueFromPool
SpecPick == InitPick /\ [][NextPick]_vars

NextSession ==
    \/ startInterview \/ startInterviewResumes
    \/ submitAnswer \/ submitAnswerResumes
    \/ resetInterview

\* the pages drive the session: a signed-in user or a guest
InitSession ==
    /\ apiKey = FALSE /\ CallIdle /\ FqIdle /\ EvIdle /\ DbIdle
    /\ ui = TRUE /\ user \in {NoUser, UserId} /\ session = NoSession /\ loading = FALSE
    /\ error = "null" /\ calls = <<>> /\ now = 0 /\ started = 0 /\ store = <<>>
    /\ lastSave = NoSave /\ settled = <<>> /\ early = 0 /\ returned = 0
SpecSession == InitSession /\ [][NextSession]_vars

\* any caller of the context's three functions
InitContext ==
    /\ apiKey = FALSE /\ CallIdle /\ FqIdle /\ EvIdle /\ DbIdle
    /\ ui = FALSE /\ user \in {NoUser, UserId} /\ session = NoSession /\ loading = FALSE
    /\ error = "null" /\ calls = <<>> /\ now = 0 /\ started = 0 /\ store = <<>>
    /\ lastSave = NoSave /\ settled = <<>> /\ early = 0 /\ returned = 0
SpecContext == InitContext /\ [][NextSession]_vars

\* any caller, and awaited calls that may throw
NextSettling ==
    \/ NextSession
    \/ submitAnswerReturns \/ startInterviewRaises \/ submitAnswerRaises
SpecSettling == InitContext /\ [][NextSettling]_vars

InitHistory == apiKey = FALSE /\ CallIdle /\ FqIdle /\ EvIdle /\ SesIdle /\ DbIdle
NextHistory == SaveNext \/ SaveEarlier \/ SaveAgain
SpecHistory == InitHistory /\ [][NextHistory]_vars

\* calls of db.saveUser and db.updatePassword, one after the other
InitUsers == apiKey = FALSE /\ CallIdle /\ FqIdle /\ EvIdle /\ SesIdle /\ DbIdle
NextUsers == SaveUser \/ UpdatePassword
SpecUsers == InitUsers /\ [][NextUsers]_vars

\* the accounts and the history as the pages drive them
InitAccounts == apiKey = FALSE /\ CallIdle /\ FqIdle /\ EvIdle /\ SesIdle /\ DbIdle
NextAccounts ==
    \/ Signup \/ SignupChecks \/ SignupHashed \/ SaveUserWrites \/ SignupCompletes
    \/ ResetPassword \/ ResetHashed \/ UpdatePasswordWrites
    \/ SaveInterviewSessionReads \/ SaveInterviewSessionWrites
SpecAccounts == InitAccounts /\ [][NextAccounts]_vars

(***************************************************************************)
(* Properties                                                              *)
(***************************************************************************)
Statuses == [i \in 1..Len(attempts) |-> attempts[i][1]]

IsQuestionList(qs) ==
    /\ Len(qs) = QUESTION_COUNT
    /\ \A i \in 1..Len(qs) :
          /\ qs[i].id = i
          /\ qs[i].category \in {"HR", "Technical"}
          /\ qs[i].text # Null

\* the shape of EvaluationResult in types.ts
IsEvaluationResult(e) ==
    /\ e.relevance \in Int /\ e.clarity \in Int /\ e.confidence \in Int
    /\ e.technical_depth \in Int /\ e.overall_score \in Int
    /\ e.sentiment.k = "string" /\ e.feedback.k = "string"
    /\ \A i \in 1..Len(e.improvement_tips) : e.improvement_tips[i].k = "string"

\* C1: whatever the backend does (any body with a 2xx status, any error
\* status, a rejected fetch, an unparseable body), generateQuestions,
\* evaluateAnswer and chatWithAI never reject, and they settle with a list of
\* 5 questions, an EvaluationResult and a string.
C1_CallsAlwaysResolve ==
    /\ result.outcome # "rejected"
    /\ pc = "done" =>
          /\ result.outcome = "resolved"
          /\ op = "questions" => IsQuestionList(result.questions)
          /\ op = "evaluate" => IsEvaluationResult(result.evaluation)
          /\ op = "chat" => result.text.k = "string" /\ result.text.s # ""

C1_Witness ==
    /\ pc = "done" /\ op = "evaluate" /\ Statuses = <<503, 0, 0>>
    /\ result.outcome = "resolved" /\ result.from = "fallback"

\* C2: 429 on the first two attempts and success on the third: three
\* requests, two waits, the second longer than the first, and the questions
\* are those normalized from the successful response, not the fallback set.
C2_RetryTwiceThenSuccess ==
    ( /\ pc = "done" /\ op = "questions" /\ Statuses = <<429, 429, 200>>
      /\ response.body.qArray /\ Len(response.body.questions) >= QUESTION_COUNT )
    => /\ requests = 3
       /\ Len(waits) = 2 /\ waits[2] > waits[1]
       /\ result.outcome = "resolved" /\ result.from = "normalized"
       /\ IsQuestionList(result.questions)
       /\ \A i \in 1..QUESTION_COUNT :
             LET given == ClientRawText(response.body.questions[i]) IN
             /\ result.questions[i].text \in {Intro, given, fallback[i].text}
             /\ ( /\ ~(i = 1 /\ result.questions[i].category = "HR")
                  /\ ~IsEmptyText(given) /\ ~isGenericQuestion(given)
                  /\ \A j \in 1..(i - 1) :
                        Canonicalize(result.questions[j].text) # Canonicalize(given) )
                => result.questions[i].text = given

C2_Witness ==
    /\ pc = "done" /\ op = "questions" /\ Statuses = <<429, 429, 200>>
    /\ result.from = "normalized" /\ waits = <<1000, 1600>>
    /\ result.questions[2].text = ModelText(2)

NotRetried4xx(status) == status >= 400 /\ status <= 499 /\ status # 429

\* C3 as stated: a 4xx status other than 429 is never retried: it is the
\* only request, nothing is waited for, generateQuestions returns the fallback.
C3_Never4xxRetry ==
    \A i \in 1..Len(attempts) :
        NotRetried4xx(attempts[i][1])
        => /\ i = Len(attempts) /\ pc = "done"
           /\ requests = i /\ Len(waits) = i - 1
           /\ op = "questions" => result.from = "fallback" /\ result.questions = fallback

\* C3, amended: a 4xx status other than 429 whose error message does not
\* match /rate|timeout|temporar|overloaded/i is never retried: the call ends
\* with that request, without a wait after it, and generateQuestions returns
\* the fallback questions.
C3_No4xxRetryUnlessMessage ==
    \A i \in 1..Len(attempts) :
        (NotRetried4xx(attempts[i][1]) /\ ~attempts[i][2])
        => /\ i = Len(attempts) /\ pc = "done"
           /\ requests = i /\ Len(waits) = i - 1
           /\ op = "questions" => result.from = "fallback" /\ result.questions = fallback

C3_Witness ==
    /\ pc = "done" /\ op = "questions" /\ attempts = << <<400, FALSE>> >>
    /\ requests = 1 /\ waits = <<>> /\ result.questions = fallback

\* C4: a retry-wrapped call invokes the request at most 3 times (1 attempt
\* and at most 2 retries); the first wait is 1000 ms and every further wait
\* is between 1.5 and 2 times the one before.
C4_BoundedRetries ==
    /\ requests <= MAX_RETRIES + 1
    /\ pc \in {"attempt", "sleeping"} => requests <= MAX_RETRIES
    /\ Len(waits) <= MAX_RETRIES /\ Len(waits) <= requests
    /\ Len(waits) >= 1 => waits[1] = 1000
    /\ \A i \in 2..Len(waits) :
          2 * waits[i] >= 3 * waits[i - 1] /\ waits[i] <= 2 * waits[i - 1]

C4_Witness ==
    pc = "done" /\ requests = 3 /\ Len(waits) = 2 /\ Statuses = <<500, 0, 429>>

TransientLlmStatus(status) == status = 429 \/ status >= 500

\* C5: when the LLM answers a question or evaluation request with 429 or
\* 5xx, the request to the LLM is retried, and a fallback is produced only
\* after the 2 retries are used up (3 requests to the LLM).
C5_LlmRetriedBeforeFallback ==
    ( /\ pc = "done" /\ op \in {"questions", "evaluate"}
      /\ TransientLlmStatus(llmLast)
      /\ (response.source = "fallback" \/ result.from = "fallback") )
    => llmCalls = MAX_RETRIES + 1

\* C6: without an API key no request goes to the LLM, every answer of the
\* three endpoints comes from the fallback path, and for type HR the answer
\* is 5 questions of category HR, the first "Tell me about yourself.".
C6_NoKeyNoLlmCall ==
    ~apiKey =>
        /\ llmCalls = 0
        /\ (response.origin = "backend" /\ response.status = 200)
           => /\ response.source = "fallback"
              /\ op = "chat" => response.body.text = CoachUnreachable
              /\ (op = "questions" /\ cfgType = Str_HR)
                 => LET qs == response.body.questions IN
                    /\ Len(qs) = 5
                    /\ \A i \in 1..Len(qs) : qs[i].category = "HR"
                    /\ qs[1].text.form = <<"Tell me about yourself.", 0>>
                    /\ pc = "done" => /\ IsQuestionList(result.questions)
                                      /\ \A i \in 1..5 : result.questions[i].category = "HR"
                                      /\ result.questions[1].text = Intro

C6_Witness ==
    /\ ~apiKey /\ pc = "done" /\ op = "questions" /\ cfgType = Str_HR
    /\ response.origin = "backend" /\ response.status = 200
    /\ response.source = "fallback" /\ requests = 1

DistinctCanonicalForms(qs) ==
    \A i, j \in 1..Len(qs) :
        i # j => Canonicalize(qs[i].text) # Canonicalize(qs[j].text)

IsFallbackList(qs) ==
    /\ IsQuestionList(qs)
    /\ qs[1].category = "HR" => qs[1].text.form = <<"Tell me about yourself.", 0>>
    /\ DistinctCanonicalForms(qs)

\* C7: for every type and seed, fallbackQuestions (client and backend)
\* returns 5 questions, slot 0 is "Tell me about yourself." when its category
\* is HR, and no two texts share a canonical form.
C7_FallbackQuestionsValid ==
    /\ fbClient # <<>> => IsFallbackList(fbClient)
    /\ fbServer # <<>> => IsFallbackList(fbServer)

C7_Witness ==
    /\ fqType = Str_Mixed /\ fqSeed = <<7, 255, 255, 255>>
    /\ fbClient # <<>> /\ fbServer # <<>>
    /\ fbClient[1].text = Intro /\ fbClient[2].category = "Technical"

InRange(n, lo, hi) == n \in Int /\ lo <= n /\ n <= hi

\* C8: for every raw input, normalizeEvaluation returns relevance, clarity,
\* confidence and technical_depth as integers in 1..10, overall_score as an
\* integer in 1..100 and exactly 3 non-empty improvement tips.
C8_NormalizedInBounds ==
    evPc \in {"once", "twice"} =>
        /\ InRange(out1.relevance, 1, 10) /\ InRange(out1.clarity, 1, 10)
        /\ InRange(out1.confidence, 1, 10) /\ InRange(out1.technical_depth, 1, 10)
        /\ InRange(out1.overall_score, 1, 100)
        /\ Len(out1.improvement_tips) = 3
        /\ \A i \in 1..3 : IsNonBlankString(out1.improvement_tips[i])

C8_Witness ==
    /\ evPc = "once" /\ raw.obj /\ raw.relevance = Num(-30) /\ raw.overall_score = Num(1005)
    /\ Len(raw.improvement_tips.items) = 4
    /\ out1.relevance = 1 /\ out1.overall_score = 100

\* C9: normalizeEvaluation(normalizeEvaluation(r)) equals
\* normalizeEvaluation(r), field by field.
C9_NormalizeIdempotent ==
    evPc = "twice" =>
        /\ out2.relevance = out1.relevance /\ out2.clarity = out1.clarity
        /\ out2.confidence = out1.confidence
        /\ out2.technical_depth = out1.technical_depth
        /\ out2.sentiment = out1.sentiment /\ out2.overall_score = out1.overall_score
        /\ out2.feedback = out1.feedback
        /\ out2.improvement_tips = out1.improvement_tips

C9_Witness ==
    /\ evPc = "twice" /\ raw.obj /\ raw.relevance = Undef
    /\ raw.sentiment = Str("positive", TRUE)
    /\ raw.improvement_tips.items = <<Str("", TRUE), Str("tip b", TRUE)>>
    /\ out2.improvement_tips[1] = Str("tip b", TRUE)

HrSpellings == { Str_HR, Str_hr, <<" ", "H", "r", " ">>, <<"h", "R", " ">> }
TechnicalSpellings ==
    { Str_Technical, Str_technical, <<"T", "E", "C", "H", "N", "I", "C", "A", "L">>,
      <<" ", "T", "e", "c", "h", "n", "i", "c", "a", "l">> }

\* C10: getCategoryPlan returns 5 labels: all HR for type HR, all Technical
\* for type Technical (in any letter case, blanks around them ignored), and
\* HR, Technical, HR, Technical, HR for Mixed and every other value; client
\* and backend return the same plan.
C10_CategoryPlan ==
    fqPc = "planned" =>
        /\ Len(planClient) = 5 /\ planServer = planClient
        /\ fqType \in HrSpellings => planClient = <<"HR", "HR", "HR", "HR", "HR">>
        /\ fqType \in TechnicalSpellings
           => planClient = <<"Technical", "Technical", "Technical", "Technical", "Technical">>
        /\ fqType \notin (HrSpellings \cup TechnicalSpellings)
           => planClient = <<"HR", "Technical", "HR", "Technical", "HR">>

C10_Witness ==
    /\ fqPc = "planned" /\ fqType = <<" ", "H", "r", " ">>
    /\ planServer = <<"HR", "HR", "HR", "HR", "HR">>

\* the LLM gave no usable answer to this evaluation: the backend answered
\* from its fallback, or the client did after the request failed
LlmUnavailable ==
    \/ result.from = "fallback"
    \/ response.origin = "backend" /\ response.source = "fallback"

\* an answer of 200 characters with the word "database" and no profanity
IsDatabaseAnswer(ans) ==
    ans.len = 200 /\ ans.techWords >= 1 /\ ans.techClient /\ ~ans.profane

\* C11: with the LLM unavailable, the evaluation of a 200-character answer
\* that contains the word "database" and no profanity has overall_score in
\* 60..100, sentiment "neutral" and exactly 3 improvement tips.
C11_DatabaseAnswerScore ==
    ( /\ pc = "done" /\ op = "evaluate" /\ IsDatabaseAnswer(answer)
      /\ LlmUnavailable )
    => /\ InRange(result.evaluation.overall_score, 60, 100)
       /\ result.evaluation.sentiment = Str("neutral", FALSE)
       /\ Len(result.evaluation.improvement_tips) = 3

IsClampedEvaluation(e) ==
    /\ InRange(e.relevance, 1, 10) /\ InRange(e.clarity, 1, 10)
    /\ InRange(e.confidence, 1, 10) /\ InRange(e.technical_depth, 1, 10)
    /\ InRange(e.overall_score, 1, 100)

\* C18: every EvaluationResult that evaluateAnswer returns, for any response
\* body and for any failure, has exactly 3 improvement tips, its four metrics
\* in 1..10 and overall_score in 1..100.
C18_EvaluationAlwaysThreeTips ==
    (pc = "done" /\ op = "evaluate")
    => /\ IsClampedEvaluation(result.evaluation)
       /\ Len(result.evaluation.improvement_tips) = 3

\* the overall score the four metrics of e give, before any penalty
MetricScore(e) ==
    ScorePercent(e.relevance + e.clarity + e.confidence + e.technical_depth)

\* what C19 asks of the fallback evaluation e of the answer ans
PenalisedWhenProfane(e, ans) ==
    IF ans.profane
    THEN /\ e.sentiment = Str("negative", FALSE)
         /\ e.overall_score = Min(100, Max(1, MetricScore(e) - 25))
    ELSE /\ e.sentiment = Str("neutral", FALSE)
         /\ e.overall_score = Min(100, Max(1, MetricScore(e)))

\* C19: a fallback evaluation of an answer that matches the profanity
\* pattern has sentiment "negative" and the metric-derived score less 25,
\* clamped to 1..100; without profanity the sentiment is "neutral" and
\* nothing is deducted.  This holds for the backend's fallback and for the
\* client's.
C19_ProfanityPenalty ==
    (pc = "done" /\ op = "evaluate" /\ LlmUnavailable)
    => PenalisedWhenProfane(result.evaluation, answer)

\* C20: whatever the response carries, generateQuestions returns 5 questions
\* with ids 1..5 in order, question i has the category of slot i of
\* getCategoryPlan(config.type) whatever category the model gave, and
\* question 1 is "Tell me about yourself." whenever slot 1 is HR; the
\* backend's normalizeQuestions does the same with the LLM's entries.
C20_QuestionsFollowPlan ==
    /\ (pc = "done" /\ op = "questions")
       => LET qs == result.questions
              plan == ClientGetCategoryPlan(cfgType)
          IN /\ Len(qs) = 5
             /\ \A i \in 1..Len(qs) : qs[i].id = i /\ qs[i].category = plan[i]
             /\ plan[1] = "HR" => qs[1].text.form = <<"Tell me about yourself.", 0>>
    /\ (op = "questions" /\ response.origin = "backend" /\ response.status = 200)
       => LET qs == response.body.questions
              plan == ServerGetCategoryPlan(cfgType)
          IN /\ Len(qs) = 5
             /\ \A i \in 1..Len(qs) : qs[i].category = plan[i]
             /\ plan[1] = "HR" => qs[1].text.form = <<"Tell me about yourself.", 0>>

C20_Witness ==
    /\ pc = "done" /\ op = "questions" /\ cfgType = Str_HR
    /\ result.from = "normalized" /\ response.origin = "other"
    /\ response.body.questions[1].category = "Technical"
    /\ response.body.questions[2].text = ModelText(2)
    /\ result.questions[2].text = ModelText(2) /\ result.questions[2].category = "HR"
    /\ result.questions[1].text = Intro

(***************************************************************************)
(* The interview session                                                   *)
(***************************************************************************)
SessionLifecycle ==
    session # NoSession =>
        /\ session.status \in {"ongoing", "completed"}
        /\ session.status = "completed" <=> Len(session.answers) = QUESTION_COUNT
        /\ session.endTime # <<>> <=> session.status = "completed"

CreatedEmpty ==
    (session' # NoSession /\ session'.id # session.id)
    => /\ session'.answers = <<>> /\ session'.currentQuestionIndex = 0
       /\ session'.status = "ongoing"

CompletedByFifthAnswer ==
    (session'.status = "completed" /\ session.status # "completed")
    => /\ session'.id = session.id
       /\ Len(session.answers) = QUESTION_COUNT - 1
       /\ Len(session'.answers) = QUESTION_COUNT

\* C12: in every state the pages can bring the session to, status is
\* "completed" exactly when 5 answers have been appended and endTime is set
\* exactly when status is "completed"; a session is created with no answers,
\* currentQuestionIndex 0 and status "ongoing"; the step that makes it
\* "completed" is the step that appends the 5th answer.
C12_SessionLifecycle ==
    []SessionLifecycle /\ [][CreatedEmpty /\ CompletedByFifthAnswer]_vars

C12_Witness ==
    /\ session.status = "completed" /\ Len(session.answers) = QUESTION_COUNT
    /\ session.endTime = <<now>> /\ session.startTime < now /\ calls = <<>>

EntriesWithId(id) == Cardinality({ i \in 1..Len(store) : store[i].id = id })

\* C13: once the 5th answer of a signed-in user's session has been
\* submitted, the stored history holds exactly one entry with the session's
\* id, and a save of a session whose id is in the history leaves the stored
\* history as it was.
C13_OneHistoryEntry ==
    /\ user # NoUser =>
          \A id \in DOMAIN settled :
              Len(settled[id]) >= QUESTION_COUNT => EntriesWithId(id) = 1
    /\ lastSave.existed => store = lastSave.before

C13_Witness ==
    /\ user # NoUser /\ session.status = "completed"
    /\ Len(settled[session.id]) = QUESTION_COUNT + 1
    /\ lastSave.existed /\ lastSave.id = session.id /\ Len(store) = 1
    /\ Len(store[1].answers) = QUESTION_COUNT

\* C14: after any sequence of startInterview, submitAnswer and
\* resetInterview calls, submitAnswer calls on a completed session included,
\* the session never has more answers than questions.
C14_AnswersWithinQuestions ==
    session # NoSession => Len(session.answers) <= Len(session.questions)

\* the step is the resumption of a submitAnswer call
SubmitSettles ==
    \E i \in 1..Len(calls) : calls[i].kind = "submit" /\ calls' = Without(calls, i)

AppendsOneAnswer ==
    /\ session'.id = session.id
    /\ Len(session'.answers) = Len(session.answers) + 1
    /\ SubSeq(session'.answers, 1, Len(session.answers)) = session.answers

\* C15 as stated: every submitAnswer call that completes on a session
\* appends exactly one answer behind the answers there were and raises
\* currentQuestionIndex by one.
C15_SubmitAdvances ==
    [][ SubmitSettles
        => /\ AppendsOneAnswer
           /\ session'.currentQuestionIndex = session.currentQuestionIndex + 1 ]_vars

\* C15, amended: every submitAnswer call that completes on a session appends
\* exactly one answer behind the answers there were; it raises
\* currentQuestionIndex by one, except on the last question, where
\* currentQuestionIndex stays and the session becomes "completed".
C15_SubmitAdvancesUntilLast ==
    [][ SubmitSettles
        => /\ AppendsOneAnswer
           /\ IF session.currentQuestionIndex = Len(session.questions) - 1
              THEN /\ session'.currentQuestionIndex = session.currentQuestionIndex
                   /\ session'.status = "completed"
              ELSE /\ session'.currentQuestionIndex = session.currentQuestionIndex + 1
                   /\ session'.status = "ongoing" ]_vars

C15_Witness ==
    /\ ui /\ calls = <<>> /\ session.status = "completed"
    /\ session.currentQuestionIndex = QUESTION_COUNT - 1
    /\ session.answers[QUESTION_COUNT].questionId = QUESTION_COUNT
    /\ session.answers[1].answerText # session.answers[QUESTION_COUNT].answerText

DistinctIds(history) ==
    \A i, j \in 1..Len(history) : i # j => history[i].id # history[j].id

StartsDescending(history) ==
    \A i \in 1..(Len(history) - 1) : history[i].startTime >= history[i + 1].startTime

\* C16 as stated: after any sequence of saves, from an empty history, the
\* stored history has at most 50 sessions, no id twice, and is in the order
\* of saving, newest first: a save puts its session at index 0, in front of
\* the history as it was stored.
C16_HistoryNewestFirst ==
    /\ Len(store) <= MAX_HISTORY_ITEMS /\ DistinctIds(store)
    /\ lastSave.existed => store = lastSave.before
    /\ (lastSave # NoSave /\ ~lastSave.existed)
       => /\ store[1].id = lastSave.id
          /\ Tail(store) = FirstN(lastSave.before, MAX_HISTORY_ITEMS - 1)

\* C16, amended: after any sequence of saves, from an empty history, the
\* stored history has at most 50 sessions, no id twice, the most recently
\* saved session at index 0 and the sessions behind it in descending order of
\* start time.
C16_HistoryCappedDistinct ==
    /\ Len(store) <= MAX_HISTORY_ITEMS /\ DistinctIds(store)
    /\ lastSave.existed => store = lastSave.before
    /\ (lastSave # NoSave /\ ~lastSave.existed) => store[1].id = lastSave.id
    /\ store # <<>> => StartsDescending(Tail(store))

C16_Witness ==
    /\ Len(store) = MAX_HISTORY_ITEMS /\ now > MAX_HISTORY_ITEMS /\ early = 1
    /\ ~lastSave.existed /\ store[1].id = lastSave.id /\ store[1].startTime = 0
    /\ ~HasId(store, toString(1))

AnswerTexts(held) == [i \in 1..Len(held.answers) |-> held.answers[i].answerText]

\* C17: driven by the pages, at most one startInterview or submitAnswer call
\* is in flight; while one is, loading is true and the start and submit
\* controls are disabled; a submitAnswer call in flight holds the session as
\* it is now, and the session's answers are the answers of all the
\* submitAnswer calls that have settled on it, in order.
C17_OneCallInFlight ==
    /\ Len(calls) <= 1
    /\ calls # <<>> => loading /\ ~StartEnabled /\ ~SubmitEnabled
    /\ \A i \in 1..Len(calls) : calls[i].kind = "submit" => calls[i].session = session
    /\ session # NoSession => AnswerTexts(session) = settled[session.id]

C17_Witness ==
    /\ ui /\ Len(calls) = 1 /\ calls[1].kind = "submit" /\ loading
    /\ Len(session.answers) = 3 /\ calls[1].session = session
    /\ calls[1].answerText # session.answers[3].answerText

SameSetup(a, b) ==
    /\ a.id = b.id /\ a.config = b.config
    /\ a.questions = b.questions /\ a.startTime = b.startTime

\* C21: every submitAnswer call that settles leaves id, config, questions and
\* startTime of the session as they were in the session it was called on,
\* which is the session of that moment unless it was reset meanwhile.
C21_SetupImmutable ==
    [][ \A i \in 1..Len(calls) :
           (calls[i].kind = "submit" /\ calls' = Without(calls, i))
           => /\ SameSetup(session', calls[i].session)
              /\ session # NoSession => SameSetup(session', session) ]_vars

C21_Witness ==
    /\ ~ui /\ calls = <<>> /\ Len(session.answers) = 2
    /\ session.id = toString(session.startTime) /\ session.startTime < now
    /\ session.config = Config(Str_Mixed) /\ Len(session.questions) = QUESTION_COUNT

\* C29: the step in which a startInterview or submitAnswer call begins on a
\* session sets loading; the step in which such a call settles, with its
\* result or with an error caught, clears loading; a submitAnswer call made
\* when there is no session leaves session, loading and error as they were.
C29_LoadingBrackets ==
    [][ /\ Len(calls') > Len(calls) => loading'
        /\ Len(calls') < Len(calls) => ~loading'
        /\ returned' # returned
           => session' = session /\ loading' = loading /\ error' = error ]_vars

C29_Witness ==
    /\ ~ui /\ calls = <<>> /\ ~loading /\ started = 1 /\ session = NoSession
    /\ error = "Failed to generate interview questions." /\ returned = 1

\* C23: every HTTP 200 response of the three endpoints has source "fallback"
\* or "model" and no other value: "fallback" whenever the LLM call failed
\* (no key, or an error status or no reply from the LLM), "model" otherwise.
C23_SourceModelOrFallback ==
    (response.origin = "backend" /\ response.status = 200)
    => /\ response.source \in {"model", "fallback"}
       /\ (~apiKey \/ llmLast # 200) => response.source = "fallback"
       /\ (apiKey /\ llmLast = 200 /\ op = "chat" /\ response.body.text # CoachUnreachable)
          => response.source = "model"

\* C24: a question text is rejected by the client's normalizer exactly when
\* the backend's normalizer rejects it, and exactly when it is one of the
\* questions the prompt tells the model not to use.
C24_SameBannedList ==
    \A i \in 1..Len(response.body.questions) :
        LET entry == response.body.questions[i] IN
        entry.k = "string"
        => /\ isGenericQuestion(entry.text) <=> ServerIsGeneric(entry.text)
           /\ ServerIsGeneric(entry.text) <=> PromptBans(entry.text)

\* C25: the list generateQuestions builds from a response of 5 entries or
\* more has no empty question, no question matching a banned generic pattern
\* and no two questions of the same canonical form, entries replaced by the
\* fallback question of their slot included.
C25_NormalizedQuestionsClean ==
    (pc = "done" /\ op = "questions" /\ result.from = "normalized")
    => LET qs == result.questions IN
       /\ \A i \in 1..Len(qs) : ~IsEmptyText(qs[i].text) /\ ~isGenericQuestion(qs[i].text)
       /\ DistinctCanonicalForms(qs)

Longer(ans) == { [ans EXCEPT !.len = len] : len \in { l \in AnswerLengths : l >= ans.len } }

\* C26: for every answer, the fallback evaluation of the client and of the
\* backend has its four metrics in 1..10 and overall_score in 1..100; the
\* client's length score (its relevance) is in 4..10 and no longer answer
\* has a lower one; an answer with a technical keyword has a technical_depth
\* no lower than the same answer without the keyword.
C26_FallbackInRange ==
    /\ evPc = "client"
       => /\ IsClampedEvaluation(out1)
          /\ InRange(out1.relevance, 4, 10)
          /\ \A b \in Longer(answer) :
                ClientFallbackEvaluation(b).relevance >= out1.relevance
          /\ out1.technical_depth
                >= ClientFallbackEvaluation([answer EXCEPT !.techClient = FALSE]).technical_depth
    /\ evPc = "server"
       => /\ IsClampedEvaluation(out2)
          /\ out2.technical_depth
                >= ServerFallbackEvaluation([answer EXCEPT !.techWords = 0]).technical_depth

C26_Witness ==
    /\ evPc = "client" /\ answer.len = 40 * MaxLenBlocks + 39 /\ answer.techClient
    /\ out1.relevance = 10 /\ out1.technical_depth = 10 /\ out1.overall_score = 95

PoolKeys(pool) == { Canonicalize(pool[k]) : k \in 1..Len(pool) }

Synthesized(q) ==
    q.text \in { ClientHrSynth, ClientTechnicalSynth }

\* C30: on a pool of 8 entries pickUniqueFromPool returns an entry of the
\* pool whose canonical form was not in the used set, and adds it to the
\* set; it returns null only when every entry of the pool is in the used
\* set; the list of fallbackQuestions holds no synthesized question.
C30_PickNeverExhausts ==
    /\ fqPc = "picked"
       => LET out == pick.out IN
          /\ Len(pick.pool) = 8
          /\ out.text # Null
             => /\ \E k \in 1..Len(pick.pool) : out.text = pick.pool[k]
                /\ Canonicalize(out.text) \notin pick.usedBefore
                /\ out.used = pick.usedBefore \cup {Canonicalize(out.text)}
          /\ out.text = Null
             => PoolKeys(pick.pool) \subseteq pick.usedBefore /\ out.used = pick.usedBefore
    /\ \A i \in 1..Len(fbClient) : ~Synthesized(fbClient[i])

C30_Witness ==
    /\ fqPc = "picked" /\ pick.out.text # Null
    /\ Cardinality(PoolKeys(pick.pool) \ pick.usedBefore) = 1
    /\ pick.out.seed # nextSeed(pick.seed)



NoTwoWithEmail(users) ==
    \A i, j \in 1..Len(users) :
        normalizeEmail(users[i].email) = normalizeEmail(users[j].email) => i = j

\* what a settled call did to the credential list
CallKept(before, after, call) ==
    LET index == FindIndexByEmail(before, normalizeEmail(call.email))
        others == \A i \in 1..Len(before) : i # index => after[i] = before[i]
    IN CASE call.kind = "saveUser" ->
              /\ Len(after) = (IF index > 0 THEN Len(before) ELSE Len(before) + 1)
              /\ others
              /\ after[IF index > 0 THEN index ELSE Len(after)]
                    = AuthUser(call.id, normalizeEmail(call.email), call.passwordHash)
         [] call.kind = "updatePassword" ->
              /\ Len(after) = Len(before)
              /\ others
              /\ (index = 0) = (call.error = "Account not found.")
              /\ index = 0 => call.error # "null"
              /\ index > 0 =>
                    after[index] = [before[index] EXCEPT !.passwordHash = call.passwordHash]
         [] OTHER -> TRUE

\* C28: after any sequence of saveUser and updatePassword calls from an empty
\* credential list, no two entries have the same trimmed, lowercased email;
\* saveUser for an email the list has replaces that entry (and adds one
\* entry otherwise), and updatePassword changes the passwordHash of the
\* matching entry and nothing else (nothing at all when no entry matches).
C28_OneEntryPerEmail ==
    /\ [](NoTwoWithEmail(authUsers))
    /\ [][finished' # finished =>
             CallKept(authUsers, authUsers', finished'[Len(finished')])]_vars

\* the same address saved twice in two spellings, then its password updated
C28_Witness ==
    /\ Len(finished) = 3 /\ Len(authUsers) = 1
    /\ finished[1].kind = "saveUser" /\ finished[1].email = <<"a">>
    /\ finished[2].kind = "saveUser" /\ finished[2].email = <<" ", "A">>
    /\ finished[3].kind = "updatePassword" /\ finished[3].error = "null"
    /\ authUsers[1] = AuthUser(finished[2].id, <<"a">>, finished[3].passwordHash)
    /\ finished[3].passwordHash # finished[2].passwordHash


\* C27: a signup whose email, trimmed and lowercased, is in the credential
\* list when db.getUsers has answered settles there with the error "This
\* email is already registered. Try signing in.", shown as an error
\* notification; no further call is made for it, and the credential list,
\* the stored profiles, the current-session pointer and the signed-in user
\* stay as they were.
C27_DuplicateSignupRejected ==
    [][\A i \in 1..Len(ops) :
          ( /\ ops[i].kind = "signup" /\ ops[i].at = "getUsers"
            /\ FindIndexByEmail(authUsers, normalizeEmail(ops[i].email)) > 0 )
          => LET message == "This email is already registered. Try signing in."
             IN /\ \A j \in 1..Len(ops') : ops'[j].n # ops[i].n
                /\ finished' = Append(finished, SettledCall("signup", ops[i].email, NoUser,
                                                            <<>>, message))
                /\ notes' = Append(notes, Notification(message, "error"))
                /\ issued' = issued /\ micro' = <<>>
                /\ authUsers' = authUsers /\ profiles' = profiles
                /\ current' = current /\ user' = user]_vars

\* "a" has signed up and is signed in; a signup with " A" was turned down
C27_Witness ==
    /\ Len(finished) = 2 /\ ops = <<>>
    /\ finished[1] = SettledCall("signup", <<"a">>, "u1", hashPassword("pw1"), "null")
    /\ finished[2].email = <<" ", "A">> /\ finished[2].error # "null"
    /\ notes[Len(notes)].type = "error"
    /\ authUsers = <<AuthUser("u1", <<"a">>, hashPassword("pw1"))>>
    /\ profiles = {UserProfile("u1", <<"N">>, <<"a">>)}
    /\ current = "u1" /\ user = "u1"

\* C22: whatever the order in which the pages' calls are resumed, a
\* db.saveUser call that has completed left an entry for its email in the
\* credential list, and a db.saveInterviewSession call that has completed
\* left its session in the history: two such calls for distinct emails, or
\* distinct session ids, both show.
C22_NoLostWrite ==
    /\ \A i \in 1..Len(finished) :
          /\ (finished[i].kind = "signup" /\ finished[i].error = "null")
                => FindIndexByEmail(authUsers, normalizeEmail(finished[i].email)) > 0
          /\ finished[i].kind = "saveInterviewSession" => HasId(store, finished[i].email)
    /\ \A i \in 1..Len(ops) :
          (ops[i].kind = "signup" /\ ops[i].at = "updateProfile")
             => FindIndexByEmail(authUsers, normalizeEmail(ops[i].email)) > 0

\* two signups for two addresses, the second finished first, and two
\* sessions saved by the first account
C22_Witness ==
    /\ \E i, j \in 1..Len(finished) :
          /\ i < j /\ finished[i].kind = "signup" /\ finished[j].kind = "signup"
          /\ finished[i].id = "u2" /\ finished[j].id = "u1"
          /\ normalizeEmail(finished[i].email) # normalizeEmail(finished[j].email)
    /\ Len(authUsers) = 2
    /\ \E i, j \in 1..Len(finished) :
          /\ finished[i].kind = "saveInterviewSession" /\ finished[j].kind = "saveInterviewSession"
          /\ finished[i].email # finished[j].email
    /\ Len(store) = 2

====
